---- MODULE Spec2Model ----
(***************************************************************************)
(* PolynanceService (src/lib/polynance-sdk.ts): the index aggregation      *)
(* engine with its four memo maps, the per-constituent fetch pipelines of  *)
(* getIndexWithData and getAllIndexesWithBasicData, and the fallback       *)
(* synthesis.  One action is one event-loop task: the start of a service   *)
(* call, or the arrival of one provider response together with every       *)
(* continuation that runs before the next suspension.                      *)
(*                                                                         *)
(* Units: prices are in thousandths, market volumes in base units, index   *)
(* volume and marketCap in hundredths (of millions), times in hours.       *)
(* A Market object lives in heap under a reference; an Index holds the     *)
(* references of its markets, as the JavaScript objects do.                *)
(***************************************************************************)
EXTENDS Integers, Sequences, FiniteSets, TLC

\* ------------------------------------------------------------- bounds
\* TLC resolves the first NumDefs predefined definitions, NumSlots of the
\* constituents of each, in at most MaxCalls service calls, at most
\* MaxBasicCalls of them list resolutions.
NumDefs == 2
NumSlots == 2
MaxCalls == 2
MaxBasicCalls == 1

Min(a, b) == IF a < b THEN a ELSE b
Max(a, b) == IF a > b THEN a ELSE b
Abs(a) == IF a < 0 THEN 0 - a ELSE a

\* An optional value (a JavaScript field that may be undefined).
Undefined == <<>>
Some(v) == <<v>>
IsDefined(o) == o # <<>>
Get(o) == o[1]

\* Map.prototype.set on a memo map held as a function.
MapSet(m, k, v) == [x \in DOMAIN m \cup {k} |-> IF x = k THEN v ELSE m[x]]
EmptyMap == [x \in {} |-> 0]

\* round-half-up of a / b for a >= 0, b > 0 (Number.prototype.toFixed).
RoundDiv(a, b) == (2 * a + b) \div (2 * b)
\* truncating division of a signed a by b # 0 (fixed-point stand-in for
\* the floating-point quotient).
TruncDiv(a, b) == IF (a < 0) = (b < 0) THEN Abs(a) \div Abs(b) ELSE 0 - (Abs(a) \div Abs(b))

\* The clock (hours since the epoch); Date.now() is read as this value.
Now == 24 * 10

\* ------------------------------------------------------------- data
predefinedIndexesSrc ==
  << [id |-> "non-viable-candidate", name |-> "Non-Viable Candidate Index",
      makrtesIds |-> <<"534197", "534220", "528716", "528717">>,
      positionNames |-> <<2, 2, 2, 2>>, icons |-> <<"", "", "", "">>,
      avgPrice |-> 0, confilmYield |-> 0, status |-> "Active",
      contractAddress |-> "0xC01BbFC94C41F0D8Fc242cFe8465ea4dcD4f20C5",
      resolutionTime |-> "3 days"],
     [id |-> "reliable-forecast", name |-> "Reliable Forecast Index",
      makrtesIds |-> <<"516909", "514138", "544924", "543148">>,
      positionNames |-> <<1, 1, 1, 1>>, icons |-> <<"", "", "", "">>,
      avgPrice |-> 0, confilmYield |-> 0, status |-> "Inactive",
      contractAddress |-> "0x787dE5d30d327Ed20b3CaE7227f0aEcAcda2852E",
      resolutionTime |-> "4 days"],
     [id |-> "90-percent-index", name |-> "90% Index of Yes and No",
      makrtesIds |-> <<"544924", "543148", "528716", "528717">>,
      positionNames |-> <<1, 1, 2, 2>>, icons |-> <<"", "", "", "">>,
      avgPrice |-> 0, confilmYield |-> 0, status |-> "Active",
      contractAddress |-> "0x2f583fa67768b4d0c092ce35455202602ec60c76",
      resolutionTime |-> "3 days"],
     [id |-> "polynance-ai-random", name |-> "Polynance AI Random Select Index",
      makrtesIds |-> <<"516960", "517124", "520435", "20789">>,
      positionNames |-> <<1, 1, 1, 1>>, icons |-> <<"", "", "", "">>,
      avgPrice |-> 0, confilmYield |-> 0, status |-> "Active",
      contractAddress |-> "0x0557EceeAD263249368B07E12e9f6C1FC59878eB",
      resolutionTime |-> "3 days "],
     \* (the source writes Japan between backquotes, which a TLA+ string cannot hold)
     [id |-> "cos similar 0.7 'Japan'", name |-> "Cos Similarity 0.7 Japan",
      makrtesIds |-> <<"522638", "522637", "517000", "532750">>,
      positionNames |-> <<2, 1, 2, 2>>, icons |-> <<"", "", "", "">>,
      avgPrice |-> 0, confilmYield |-> 0, status |-> "Active",
      contractAddress |-> "0xd189321231B8A71493506eC87b959bed191E8f4d",
      resolutionTime |-> "3 days "] >>

\* The part of the list TLC resolves: the first NumDefs definitions of
\* DefPick and the first NumSlots constituents of SlotPick, each kept in source
\* order.  The picks start with two definitions that share a market id
\* ("544924"), one of them inactive, the other with both position codes.
DefPick == <<2, 3, 1, 4, 5>>
SlotPick == <<1, 3, 2, 4>>
Ascending(S) == [i \in 1..Cardinality(S) |->
                   CHOOSE x \in S : Cardinality({y \in S : y < x}) = i - 1]
KeptDefs == Ascending({DefPick[i] : i \in 1..Min(NumDefs, Len(DefPick))})
KeptSlots == Ascending({SlotPick[i] : i \in 1..Min(NumSlots, Len(SlotPick))})
Kept(seq) == [i \in DOMAIN KeptSlots |-> seq[KeptSlots[i]]]

predefinedIndexes ==
  [d \in DOMAIN KeptDefs |->
     [predefinedIndexesSrc[KeptDefs[d]] EXCEPT !.makrtesIds = Kept(@),
                                               !.positionNames = Kept(@),
                                               !.icons = Kept(@)]]

DefIdx == DOMAIN predefinedIndexes
SlotsOf(d) == DOMAIN predefinedIndexes[d].makrtesIds
IndexIds == {predefinedIndexes[d].id : d \in DefIdx}
UnknownId == "no-such-index"
MarketIds == UNION {{predefinedIndexes[d].makrtesIds[s] : s \in SlotsOf(d)} : d \in DefIdx}

\* getPredefinedIndex: the definition with this id, or undefined.
getPredefinedIndex(indexId) ==
  IF \E d \in DefIdx : predefinedIndexes[d].id = indexId
    THEN Some(predefinedIndexes[CHOOSE d \in DefIdx :
                 /\ predefinedIndexes[d].id = indexId
                 /\ \A e \in DefIdx : predefinedIndexes[e].id = indexId => d <= e])
    ELSE Undefined

DefOf(indexId) == CHOOSE d \in DefIdx : predefinedIndexes[d].id = indexId

Provider == "polymarket"
CacheKey(provider, marketId) == provider \o "-" \o marketId

RECURSIVE SumInts(_)
SumInts(seq) == IF seq = <<>> THEN 0 ELSE Head(seq) + SumInts(Tail(seq))

\* ------------------------------------------------------------- provider
\* What the market data provider answers.  Its records differ from market to
\* market: ordinary ones (Condition 1), bare ones (0: no position tokens, no
\* group title, an end date in the past, no trades, no order book) and thin
\* ones (2: one unnamed token priced 0, a single trade).
AllMarketIds == <<"534197", "534220", "528716", "528717", "516909", "514138",
                  "544924", "543148", "516960", "517124", "520435", "20789",
                  "522638", "522637", "517000", "532750">>
Ord(marketId) == CHOOSE i \in DOMAIN AllMarketIds : AllMarketIds[i] = marketId
Condition(marketId) == Ord(marketId) % 3

\* sdk.getExchange: a record carrying the requested id.
Exchange(marketId) ==
  CASE Condition(marketId) = 1 ->
         [id |-> marketId, name |-> "Will " \o marketId, groupItemTitle |-> "Politics",
          icon |-> "icon.png", end |-> Now + 48, description |-> "about " \o marketId,
          position_tokens |-> << [name |-> "Yes", price |-> 100 * ((Ord(marketId) % 9) + 1)],
                                 [name |-> "No", price |-> 200] >>]
    [] Condition(marketId) = 2 ->
         [id |-> marketId, name |-> "Will " \o marketId, groupItemTitle |-> "Sports",
          icon |-> "", end |-> Now + 1, description |-> "",
          position_tokens |-> << [name |-> "", price |-> 0] >>]
    [] OTHER ->
         [id |-> marketId, name |-> "Will " \o marketId, groupItemTitle |-> "",
          icon |-> "", end |-> Now - 5, description |-> "",
          position_tokens |-> <<>>]

\* sdk.getPriceHistory: one trade array per position side.
PriceHistory(marketId) ==
  CASE Condition(marketId) = 1 ->
         << << [price |-> 400, volumeBase |-> 5000 * Ord(marketId), timestamp |-> 10],
               [price |-> 500, volumeBase |-> 15000, timestamp |-> 20] >>,
            << [price |-> 600, volumeBase |-> 1000, timestamp |-> 15] >> >>
    [] Condition(marketId) = 2 ->
         << << [price |-> 300, volumeBase |-> 20000, timestamp |-> 12] >>, <<>> >>
    [] OTHER -> <<>>

\* sdk.getOrderbook: asset id -> order book summary.
Orderbook(marketId) ==
  IF Condition(marketId) = 0
    THEN EmptyMap
    ELSE [a \in {marketId \o "-yes"} |->
            [market |-> marketId, asset_id |-> a, timestamp |-> Now,
             bids |-> << [price |-> 400, size |-> 10] >>,
             asks |-> << [price |-> 600, size |-> 10] >>, hash |-> "h"]]

\* Math.random(), in thousandths.  The numbers the generator yields differ
\* from draw site to draw site (the pipeline of call c and task t): the k-th
\* draw made there is Rnd(SiteSeed(c, t), k).
RandomSeq == <<0, 500, 999>>
Rnd(sd, k) == RandomSeq[((sd + k) % Len(RandomSeq)) + 1]
Advance(sd, k) == (sd + k) % Len(RandomSeq)
SiteSeed(c, t) == (c + t[1] + t[2]) % Len(RandomSeq)

\* ------------------------------------------------------------- markets
getAveragePrice(exchange) ==
  IF exchange.position_tokens = <<>>
    THEN 0
    ELSE SumInts([i \in DOMAIN exchange.position_tokens |-> exchange.position_tokens[i].price])
           \div Len(exchange.position_tokens)

calculateRemainingHours(endDate) == Max(0, endDate - Now)

\* The Market getMarket builds from an exchange record.
MarketOf(exchange) ==
  [id |-> exchange.id,
   name |-> exchange.name,
   proportion |-> <<1, 1>>,
   price |-> getAveragePrice(exchange),
   category |-> IF exchange.groupItemTitle = "" THEN "General" ELSE exchange.groupItemTitle,
   remainingHours |-> calculateRemainingHours(exchange.end),
   icon |-> exchange.icon,
   priceHistory |-> Undefined,
   orderbook |-> Undefined,
   volume |-> 0,
   end |-> exchange.end,
   position |-> IF exchange.position_tokens # <<>> /\ exchange.position_tokens[1].name # ""
                  THEN exchange.position_tokens[1].name ELSE "Unknown",
   description |-> Some(exchange.description)]

\* Mutant of PositionOf: any non-zero code counts as YES.
PositionOfTruthy(positionType) == IF positionType # 0 THEN "YES" ELSE "NO"

\* positionType === 1 ? "YES" : "NO" (lines 305, 511, 747)
PositionOf(positionType) == IF positionType = 1 THEN "YES" ELSE "NO"

\* createFallbackMarket draws four random numbers, in this order: price,
\* remainingHours, volume, end.
createFallbackMarket(marketId, index, totalMarkets, positionType, sd) ==
  [id |-> marketId,
   name |-> "Market " \o marketId,
   proportion |-> <<1, totalMarkets>>,
   price |-> 700 + (Rnd(sd, 0) * 250) \div 1000,
   category |-> "Unknown",
   remainingHours |-> (Rnd(sd, 1) * 72) \div 1000,
   icon |-> "",
   priceHistory |-> Some(<<>>),
   orderbook |-> Some(EmptyMap),
   volume |-> Rnd(sd, 2) * 1000,
   end |-> Now + (Rnd(sd, 3) * 168) \div 1000,
   position |-> PositionOf(positionType),
   description |-> Undefined]
FallbackDraws == 4

\* ------------------------------------------------------------- index fields
\* A formatted number: prefix, then toFixed's own sign and digits (mag in
\* units of 10^-decimals), then "%".  kind "nonfinite" is Infinity or NaN.
Fmt(prefix, neg, mag, decimals) ==
  [prefix |-> prefix, neg |-> neg, mag |-> mag, decimals |-> decimals, kind |-> "number"]
NonFinite(prefix) ==
  [prefix |-> prefix, neg |-> FALSE, mag |-> 0, decimals |-> 2, kind |-> "nonfinite"]
PlusZero == Fmt("+", FALSE, 0, 2)

\* /(\d+) days?/ on the resolution-time texts of the predefined list.
daysMatch(text) ==
  CASE text \in {"3 days", "3 days "} -> Some(3)
    [] text = "4 days" -> Some(4)
    [] OTHER -> Undefined
\* Number.parseInt(text) || 3
parseIntOr3(text) ==
  CASE text \in {"3 days", "3 days "} -> 3
    [] text = "4 days" -> 4
    [] OTHER -> 3
\* Mutant of IsInactive: the comparison without toLowerCase.
IsInactiveExact(status) == status = "inactive"

\* status.toLowerCase() === "inactive"
IsInactive(status) == status \in {"Inactive", "inactive", "INACTIVE"}

\* { ...predefinedIndex }: the copy a resolution works on.
CopyOf(def) ==
  [id |-> def.id, name |-> def.name, makrtesIds |-> def.makrtesIds,
   positionNames |-> def.positionNames, icons |-> def.icons,
   avgPrice |-> def.avgPrice, confilmYield |-> def.confilmYield,
   status |-> def.status, contractAddress |-> def.contractAddress,
   resolutionTime |-> def.resolutionTime,
   priceChange24h |-> Undefined, yieldRange |-> Undefined, yieldLoss |-> Undefined,
   markets |-> Undefined, daysRemaining |-> Undefined, volume |-> Undefined,
   marketCap |-> Undefined, settlementDate |-> Undefined, expired |-> Undefined]

\* the Market objects of an index, read through the heap H
MarketsOf(index, H) == [i \in DOMAIN Get(index.markets) |-> H[Get(index.markets)[i]]]

\* (r * 0.1 - 0.05).toFixed(2) with its sign rule (lines 635-636, 710-711)
MockChange(r) ==
  IF r < 500 THEN Fmt("", TRUE, RoundDiv(500 - r, 100), 2)
             ELSE Fmt("+", FALSE, RoundDiv(r - 500, 100), 2)

\* a market counts for the price change when its first array has >= 2 trades
HasUsableHistory(m) ==
  /\ IsDefined(m.priceHistory)
  /\ Len(Get(m.priceHistory)) > 0
  /\ Len(Get(m.priceHistory)[1]) > 1
\* (latest - oldest) / oldest of the first array, in units of 10^-5
MarketChange(m) ==
  LET history == Get(m.priceHistory)[1]
      oldestPrice == history[1].price
      latestPrice == history[Len(history)].price
  IN  TruncDiv((latestPrice - oldestPrice) * 100000, oldestPrice)

\* Mutant of YieldContribution: the YES formula for every position code.
YieldContributionYesOnly(isYesPosition, price) ==
  IF price > 0 THEN TruncDiv((1000 - price) * 100000, price) ELSE 0

\* the yield contribution of slot i, in thousandths of a percent
YieldContribution(isYesPosition, price) ==
  IF isYesPosition /\ price > 0 THEN TruncDiv((1000 - price) * 100000, price)
  ELSE IF ~isYesPosition /\ price < 1000
    THEN TruncDiv(100000000, 1000 - price) - 100000
  ELSE 0

\* calculateIndexFields: the index with its derived fields; draws is the
\* number of random numbers it took.
calculateIndexFields(index, H, sd) ==
  LET days == IF IsDefined(daysMatch(index.resolutionTime))
                THEN Get(daysMatch(index.resolutionTime)) ELSE 0
      expired == IsInactive(index.status)
      hasMarkets == IsDefined(index.markets) /\ Len(Get(index.markets)) > 0
      ms == IF hasMarkets THEN MarketsOf(index, H) ELSE <<>>
      n == Len(ms)
      totalPrice == SumInts([i \in DOMAIN ms |-> ms[i].price])
      totalVolume == SumInts([i \in DOMAIN ms |-> ms[i].volume])
      volume == IF hasMarkets THEN Some(RoundDiv(totalVolume, 10000)) ELSE index.volume
      valid == {i \in DOMAIN ms : HasUsableHistory(ms[i])}
      zeroOldest == \E i \in valid : Get(ms[i].priceHistory)[1][1].price = 0
      priceChange == SumInts([i \in DOMAIN ms |->
                        IF i \in valid /\ ~zeroOldest THEN MarketChange(ms[i]) ELSE 0])
      avgPriceChange == IF valid = {} THEN 0 ELSE TruncDiv(priceChange, Cardinality(valid))
      usesRandom == hasMarkets /\ valid = {}
      change == IF ~hasMarkets THEN index.priceChange24h
                ELSE IF valid = {} THEN Some(MockChange(Rnd(sd, 0)))
                ELSE IF zeroOldest THEN Some(NonFinite(""))
                ELSE Some(Fmt(IF avgPriceChange >= 0 THEN "+" ELSE "",
                              avgPriceChange < 0, RoundDiv(Abs(avgPriceChange), 10), 2))
      yieldSum == SumInts([i \in DOMAIN ms |->
                     YieldContribution(index.positionNames[i] = 1, ms[i].price)])
      yieldValue == IF n = 0 THEN 0 ELSE TruncDiv(yieldSum, n)
      confilm == IF index.confilmYield = 0 THEN 85 ELSE index.confilmYield
      base == [index EXCEPT !.daysRemaining = Some(days),
                            !.expired = Some(expired),
                            !.settlementDate = Some(Now \div 24 + days),
                            !.avgPrice = IF hasMarkets
                                           THEN RoundDiv(totalPrice, n * 10) * 10 ELSE @]
  IN [draws |-> IF usesRandom THEN 1 ELSE 0,
      index |->
        IF ~expired
          THEN [base EXCEPT
                  !.volume = volume,
                  !.priceChange24h = change,
                  !.yieldRange = IF hasMarkets
                                   THEN Some(Fmt("+", yieldValue < 0, RoundDiv(Abs(yieldValue), 100), 1))
                                   ELSE Some(Fmt("+", FALSE, 75, 1)),
                  !.yieldLoss = IF hasMarkets
                                  THEN Some(Fmt("-", yieldValue < 0, RoundDiv(Abs(yieldValue), 200), 1))
                                  ELSE Some(Fmt("-", FALSE, 32, 1)),
                  !.marketCap = IF IsDefined(volume) /\ Get(volume) # 0
                                  THEN Some(Get(volume) * 2) ELSE Some(0)]
          ELSE [base EXCEPT
                  !.confilmYield = confilm,
                  !.yieldRange = Some(Fmt("+", confilm < 0, Abs(confilm), 1)),
                  !.priceChange24h = Some(PlusZero),
                  !.volume = Some(5),
                  !.marketCap = Some(10)]]

\* calculateBasicIndexFields: as above for the list view.  Random numbers are
\* drawn in source order: avgPrice (only without markets), price change, then
\* for an active index yieldRange, yieldLoss, volume.
calculateBasicIndexFields(index, H, sd) ==
  LET days == IF IsDefined(daysMatch(index.resolutionTime))
                THEN Get(daysMatch(index.resolutionTime)) ELSE 0
      expired == IsInactive(index.status)
      hasMarkets == IsDefined(index.markets) /\ Len(Get(index.markets)) > 0
      ms == IF hasMarkets THEN MarketsOf(index, H) ELSE <<>>
      n == Len(ms)
      totalPrice == SumInts([i \in DOMAIN ms |-> ms[i].price])
      k0 == IF hasMarkets THEN 0 ELSE 1
      confilm == IF index.confilmYield = 0 THEN 85 ELSE index.confilmYield
      base == [index EXCEPT !.daysRemaining = Some(days),
                            !.expired = Some(expired),
                            !.settlementDate = Some(Now \div 24 + days),
                            !.avgPrice = IF hasMarkets
                                           THEN RoundDiv(totalPrice, n * 10) * 10
                                           ELSE 750 + Rnd(sd, 0) \div 5,
                            !.priceChange24h = Some(MockChange(Rnd(sd, k0)))]
  IN [draws |-> IF expired THEN k0 + 1 ELSE k0 + 4,
      index |->
        IF ~expired
          THEN [base EXCEPT
                  !.yieldRange = Some(Fmt("+", FALSE, RoundDiv(50000 + Rnd(sd, k0 + 1) * 50, 1000), 1)),
                  !.yieldLoss = Some(Fmt("-", FALSE, RoundDiv(20000 + Rnd(sd, k0 + 2) * 30, 1000), 1)),
                  !.volume = Some(Rnd(sd, k0 + 3))]
          ELSE [base EXCEPT
                  !.confilmYield = confilm,
                  !.yieldRange = Some(Fmt("+", confilm < 0, Abs(confilm), 1)),
                  !.priceChange24h = Some(PlusZero),
                  !.volume = Some(5)]]

\* createFallbackIndex: throws for an id that is not predefined; otherwise the
\* copy with mock fields (six draws) and one fallback market per slot (four
\* draws each), returned as objects for the caller to hold.
createFallbackIndex(indexId, sd) ==
  IF ~IsDefined(getPredefinedIndex(indexId))
    THEN [threw |-> TRUE, index |-> Undefined, markets |-> <<>>, draws |-> 0]
    ELSE
      LET def == Get(getPredefinedIndex(indexId))
          n == Len(def.makrtesIds)
          days == parseIntOr3(def.resolutionTime)
      IN [threw |-> FALSE,
          index |-> Some([CopyOf(def) EXCEPT
             !.avgPrice = 750 + Rnd(sd, 0) \div 5,
             !.priceChange24h = IF Rnd(sd, 1) > 500
                                  THEN Some(Fmt("+", FALSE, RoundDiv(Rnd(sd, 2) * 5, 10), 2))
                                  ELSE Some(Fmt("-", FALSE, RoundDiv(Rnd(sd, 2) * 3, 10), 2)),
             !.yieldRange = Some(Fmt("+", FALSE, RoundDiv(50000 + Rnd(sd, 3) * 50, 1000), 1)),
             !.yieldLoss = Some(Fmt("-", FALSE, RoundDiv(20000 + Rnd(sd, 4) * 30, 1000), 1)),
             !.volume = Some(Rnd(sd, 5)),
             !.daysRemaining = Some(days),
             !.expired = Some(IsInactive(def.status)),
             !.settlementDate = Some(Now \div 24 + days)]),
          markets |-> [i \in 1..n |->
             createFallbackMarket(def.makrtesIds[i], i - 1, n, def.positionNames[i],
                                  Advance(sd, 6 + FallbackDraws * (i - 1)))],
          draws |-> 6 + FallbackDraws * n]

\* ------------------------------------------------------------- state
VARIABLES
  cachedIndexes,         \* Map indexId -> Index
  cachedMarkets,         \* Map cache key -> reference of a Market object
  cachedPriceHistories,  \* Map cache key -> TradeRecord[]
  cachedOrderbooks,      \* Map cache key -> order book
  heap,                  \* reference -> Market object
  calls,                 \* the service calls made so far, by call number
  input,                 \* the arguments of a synchronous method under study
  output                 \* what that method returned (<<>> before it ran)

vars == <<cachedIndexes, cachedMarkets, cachedPriceHistories, cachedOrderbooks,
          heap, calls, input, output>>

CallIds == 1..MaxCalls
\* A task is one per-constituent pipeline <<d, s>> of a resolution (definition
\* d, slot s), or <<0, 0>> for a direct getMarket / getMarketPriceHistory /
\* getMarketOrderbook call.  Its step is the provider call it is suspended
\* at, or "real" / "fallback" / "returned" / "threw" once it has finished.
DirectTask == <<0, 0>>
NoCall == [kind |-> "none", arg |-> "", status |-> "idle", tasks |-> EmptyMap,
           done |-> EmptyMap, result |-> Undefined]
NewTask(step, market) == [step |-> step, market |-> market, failedAt |-> ""]
Suspended == {"exchange", "history", "orderbook"}
Finished == {"real", "fallback"}

TaskMarketId(call, t) ==
  IF t = DirectTask THEN call.arg ELSE predefinedIndexes[t[1]].makrtesIds[t[2]]
TaskKey(call, t) == CacheKey(Provider, TaskMarketId(call, t))
RealRef(c, t) == <<c, t[1], t[2], "real">>
FallbackRef(c, t) == <<c, t[1], t[2], "fallback">>

\* The part of the state one event-loop task works on: the memo maps, the
\* heap and the record of the call that is running.
StateOf(c) ==
  [cachedIndexes |-> cachedIndexes, cachedMarkets |-> cachedMarkets,
   cachedOrderbooks |-> cachedOrderbooks, heap |-> heap, call |-> calls[c]]
Commit(c, st) ==
  /\ cachedIndexes' = st.cachedIndexes
  /\ cachedMarkets' = st.cachedMarkets
  /\ cachedOrderbooks' = st.cachedOrderbooks
  /\ heap' = st.heap
  /\ calls' = [calls EXCEPT ![c] = st.call]
  /\ UNCHANGED <<cachedPriceHistories, input, output>>

SetTask(st, t, task) == [st EXCEPT !.call.tasks = MapSet(@, t, task)]

\* the catch block of a constituent pipeline (lines 317-321, 515-519)
FallbackSlot(st, c, t, step) ==
  LET def == predefinedIndexes[t[1]]
      m == createFallbackMarket(def.makrtesIds[t[2]], t[2] - 1, Len(def.makrtesIds),
                                def.positionNames[t[2]], SiteSeed(c, t))
  IN [SetTask(st, t, [step |-> "fallback", market |-> Some(FallbackRef(c, t)),
                      failedAt |-> step])
        EXCEPT !.heap = MapSet(@, FallbackRef(c, t), m)]

\* Mutant of SetPosition: the proportion is left as getMarket set it.
SetPositionOnly(st, t, r) ==
  [st EXCEPT !.heap[r].position =
               IF predefinedIndexes[t[1]].positionNames[t[2]] = 1 THEN "YES" ELSE "NO"]

\* lines 304-306 / 510-512: the resolution writes position and proportion
\* into the Market object getMarket returned.
SetPosition(st, t, r) ==
  LET def == predefinedIndexes[t[1]]
  IN [st EXCEPT !.heap[r].position = PositionOf(def.positionNames[t[2]]),
                !.heap[r].proportion = <<1, Len(def.makrtesIds)>>]

\* ------------------------------------------------------------- pipelines
\* Each Enter operator is a service method up to its first suspension; each
\* After operator is what its caller does with the value it returned.
Return(st, t, value) ==
  [SetTask(st, t, NewTask("returned", Undefined))
     EXCEPT !.call.status = "returned", !.call.result = Some(value)]
Throw(st, t, step) ==
  [SetTask(st, t, [step |-> "threw", market |-> Undefined, failedAt |-> step])
     EXCEPT !.call.status = "threw"]

\* lines 313-316: market.orderbook = orderbook; return market
AfterGetMarketOrderbook(st, c, t, orderbook) ==
  IF st.call.kind = "orderbook"
    THEN Return(st, t, orderbook)
    ELSE LET r == Get(st.call.tasks[t].market)
         IN SetTask([st EXCEPT !.heap[r].orderbook = Some(orderbook)],
                    t, NewTask("real", Some(r)))

\* getMarketOrderbook, lines 255-263
getMarketOrderbook(st, c, t) ==
  IF TaskKey(st.call, t) \in DOMAIN st.cachedOrderbooks
    THEN AfterGetMarketOrderbook(st, c, t, st.cachedOrderbooks[TaskKey(st.call, t)])
    ELSE SetTask(st, t, [st.call.tasks[t] EXCEPT !.step = "orderbook"])

\* lines 309-313: market.priceHistory = priceHistory, then the order book
AfterGetMarketPriceHistory(st, c, t, priceHistory) ==
  IF st.call.kind = "history"
    THEN Return(st, t, priceHistory)
    ELSE LET r == Get(st.call.tasks[t].market)
         IN getMarketOrderbook([st EXCEPT !.heap[r].priceHistory = Some(priceHistory)], c, t)

\* Mutant of getMarketPriceHistory: a resolution goes on to the order book
\* without asking for the price history.
getMarketPriceHistorySkipped(st, c, t) ==
  IF st.call.kind = "history"
    THEN SetTask(st, t, [st.call.tasks[t] EXCEPT !.step = "history"])
    ELSE getMarketOrderbook(st, c, t)

\* getMarketPriceHistory, lines 218-226
getMarketPriceHistory(st, c, t) ==
  IF TaskKey(st.call, t) \in DOMAIN cachedPriceHistories
    THEN AfterGetMarketPriceHistory(st, c, t, <<cachedPriceHistories[TaskKey(st.call, t)]>>)
    ELSE SetTask(st, t, [st.call.tasks[t] EXCEPT !.step = "history"])

\* Mutant of AfterGetMarket: the list view fetches the price history and the
\* order book as a full resolution does.
AfterGetMarketWithHistory(st, c, t, r) ==
  IF st.call.kind = "market" THEN Return(st, t, r)
  ELSE getMarketPriceHistory(
         SetTask(SetPosition(st, t, r), t, NewTask("exchange", Some(r))), c, t)

\* lines 302-309 (full), 508-514 (basic), or the return of a direct call
AfterGetMarket(st, c, t, r) ==
  CASE st.call.kind = "market" -> Return(st, t, r)
    [] st.call.kind = "basic" -> SetTask(SetPosition(st, t, r), t, NewTask("real", Some(r)))
    [] OTHER -> getMarketPriceHistory(
                  SetTask(SetPosition(st, t, r), t, NewTask("exchange", Some(r))), c, t)

\* Mutant of getMarket: the memo is not consulted.
getMarketNoMemo(st, c, t) == SetTask(st, t, NewTask("exchange", Undefined))

\* getMarket, lines 176-184
getMarket(st, c, t) ==
  IF TaskKey(st.call, t) \in DOMAIN st.cachedMarkets
    THEN AfterGetMarket(st, c, t, st.cachedMarkets[TaskKey(st.call, t)])
    ELSE SetTask(st, t, NewTask("exchange", Undefined))

\* getMarket after sdk.getExchange answered, lines 186-204
getMarketResolved(st, c, t, exchange) ==
  AfterGetMarket([st EXCEPT !.heap = MapSet(@, RealRef(c, t), MarketOf(exchange)),
                            !.cachedMarkets = MapSet(@, TaskKey(st.call, t), RealRef(c, t))],
                 c, t, RealRef(c, t))

\* getMarketPriceHistory after sdk.getPriceHistory answered, lines 228-236
getMarketPriceHistoryResolved(st, c, t, priceHistory) ==
  LET key == TaskKey(st.call, t)
      updates == /\ key \in DOMAIN st.cachedMarkets
                 /\ Len(priceHistory) > 0
                 /\ Len(priceHistory[1]) > 0
      marketVolume == SumInts([i \in DOMAIN priceHistory[1] |-> priceHistory[1][i].volumeBase])
  IN AfterGetMarketPriceHistory(
       IF updates THEN [st EXCEPT !.heap[st.cachedMarkets[key]].volume = marketVolume] ELSE st,
       c, t, priceHistory)

\* getMarketOrderbook after sdk.getOrderbook answered, lines 265-268
getMarketOrderbookResolved(st, c, t, orderbook) ==
  AfterGetMarketOrderbook(
    [st EXCEPT !.cachedOrderbooks = MapSet(@, TaskKey(st.call, t), orderbook)], c, t, orderbook)

\* Mutant of Rejected: without the catch of the constituent pipeline, the
\* rejection leaves the resolution.
RejectedUncaught(st, c, t, step) == Throw(st, t, step)

\* a rejected provider call: the method rethrows (lines 205-208, 237-242,
\* 269-274) and the constituent pipeline, if any, catches
Rejected(st, c, t, step) ==
  IF t = DirectTask THEN Throw(st, t, step) ELSE FallbackSlot(st, c, t, step)

\* ------------------------------------------------------------- joins
TasksOfDef(call, d) == {t \in DOMAIN call.tasks : t[1] = d}
\* Mutant of AllFinished: the join waits for provider data in every slot, so
\* a slot whose provider call failed is never counted as finished.
AllFinishedReal(call, d) ==
  /\ TasksOfDef(call, d) = {<<d, s>> : s \in SlotsOf(d)}
  /\ \A t \in TasksOfDef(call, d) : call.tasks[t].step = "real"
AllFinished(call, d) ==
  /\ TasksOfDef(call, d) = {<<d, s>> : s \in SlotsOf(d)}
  /\ \A t \in TasksOfDef(call, d) : call.tasks[t].step \in Finished
\* Mutant of Gathered: the markets collected against slot order.
GatheredReversed(call, d) ==
  [s \in SlotsOf(d) |-> Get(call.tasks[<<d, Cardinality(SlotsOf(d)) + 1 - s>>].market)]

\* Promise.all(marketPromises): the markets in slot order
Gathered(call, d) == [s \in SlotsOf(d) |-> Get(call.tasks[<<d, s>>].market)]

\* Mutant of JoinFull: a resolution that finds an entry for its id in the
\* Index memo returns that entry and writes nothing.
JoinFullKeepFirst(st, c) ==
  LET d == DefOf(st.call.arg)
      calc == calculateIndexFields(
                [CopyOf(predefinedIndexes[d]) EXCEPT !.markets = Some(Gathered(st.call, d))],
                st.heap, SiteSeed(c, <<d, 0>>))
  IN IF st.call.status = "running" /\ AllFinished(st.call, d)
       THEN IF st.call.arg \in DOMAIN st.cachedIndexes
              THEN [st EXCEPT !.call.status = "returned",
                              !.call.result = Some(st.cachedIndexes[st.call.arg])]
              ELSE [st EXCEPT !.cachedIndexes = MapSet(@, st.call.arg, calc.index),
                              !.call.status = "returned",
                              !.call.result = Some(calc.index)]
       ELSE st

\* Mutant of JoinFull: an Index that holds a Fallback Market is returned but
\* not memoized, so that a later call asks the provider again.
JoinFullRealOnly(st, c) ==
  LET d == DefOf(st.call.arg)
      calc == calculateIndexFields(
                [CopyOf(predefinedIndexes[d]) EXCEPT !.markets = Some(Gathered(st.call, d))],
                st.heap, SiteSeed(c, <<d, 0>>))
  IN IF st.call.status = "running" /\ AllFinished(st.call, d)
       THEN IF \E t \in TasksOfDef(st.call, d) : st.call.tasks[t].step = "fallback"
              THEN [st EXCEPT !.call.status = "returned",
                              !.call.result = Some(calc.index)]
              ELSE [st EXCEPT !.cachedIndexes = MapSet(@, st.call.arg, calc.index),
                              !.call.status = "returned",
                              !.call.result = Some(calc.index)]
       ELSE st

\* getIndexWithData after Promise.all, lines 325-334
JoinFull(st, c) ==
  LET d == DefOf(st.call.arg)
      calc == calculateIndexFields(
                [CopyOf(predefinedIndexes[d]) EXCEPT !.markets = Some(Gathered(st.call, d))],
                st.heap, SiteSeed(c, <<d, 0>>))
  IN IF st.call.status = "running" /\ AllFinished(st.call, d)
       THEN [st EXCEPT !.cachedIndexes = MapSet(@, st.call.arg, calc.index),
                       !.call.status = "returned",
                       !.call.result = Some(calc.index)]
       ELSE st

\* getAllIndexesWithBasicData after the inner Promise.all of definition d,
\* lines 523-529
JoinBasicDef(st, c, d) ==
  LET calc == calculateBasicIndexFields(
                [CopyOf(predefinedIndexes[d]) EXCEPT !.markets = Some(Gathered(st.call, d))],
                st.heap, SiteSeed(c, <<d, 0>>))
  IN IF d \notin DOMAIN st.call.done /\ AllFinished(st.call, d)
       THEN [st EXCEPT !.call.done = MapSet(@, d, calc.index)]
       ELSE st

RECURSIVE JoinBasicDefs(_, _, _)
JoinBasicDefs(st, c, d) ==
  IF d \notin DefIdx THEN st ELSE JoinBasicDefs(JoinBasicDef(st, c, d), c, d + 1)

\* Mutant of JoinBasic: the list is returned as soon as one definition is done.
JoinBasicEarly(st, c) ==
  LET st1 == JoinBasicDefs(st, c, 1)
  IN IF st1.call.status = "running" /\ DOMAIN st1.call.done # {}
       THEN [st1 EXCEPT !.call.status = "returned",
                        !.call.result = Some([d \in 1..Cardinality(DOMAIN st1.call.done) |->
                           st1.call.done[CHOOSE e \in DOMAIN st1.call.done : TRUE]])]
       ELSE st1

\* ... and after the outer Promise.all, line 538
JoinBasic(st, c) ==
  LET st1 == JoinBasicDefs(st, c, 1)
  IN IF st1.call.status = "running" /\ DOMAIN st1.call.done = DefIdx
       THEN [st1 EXCEPT !.call.status = "returned",
                        !.call.result = Some([d \in DefIdx |-> st1.call.done[d]])]
       ELSE st1

Join(st, c) ==
  CASE st.call.kind = "full" -> JoinFull(st, c)
    [] st.call.kind = "basic" -> JoinBasic(st, c)
    [] OTHER -> st

\* index.makrtesIds.map(async ...): every constituent pipeline of definition
\* d runs to its first suspension, in slot order
RECURSIVE StartSlots(_, _, _, _)
StartSlots(st, c, d, s) ==
  IF s \notin SlotsOf(d) THEN st ELSE StartSlots(getMarket(st, c, <<d, s>>), c, d, s + 1)

RECURSIVE StartDefs(_, _, _)
StartDefs(st, c, d) ==
  IF d \notin DefIdx THEN st ELSE StartDefs(StartSlots(st, c, d, 1), c, d + 1)

\* ------------------------------------------------------------- actions
Init ==
  /\ cachedIndexes = EmptyMap
  /\ cachedMarkets = EmptyMap
  /\ cachedPriceHistories = EmptyMap
  /\ cachedOrderbooks = EmptyMap
  /\ heap = EmptyMap
  /\ calls = [c \in CallIds |-> NoCall]
  /\ input = <<>>
  /\ output = <<>>

CanStart(c) ==
  /\ calls[c].kind = "none"
  /\ \A b \in CallIds : b < c => calls[b].kind # "none"
Begin(c, kind, arg) ==
  [StateOf(c) EXCEPT !.call = [NoCall EXCEPT !.kind = kind, !.arg = arg, !.status = "running"]]

\* Mutant of StartGetIndexWithData: the Index memo is not consulted.
StartGetIndexWithDataNoMemo(c, indexId) ==
  /\ CanStart(c)
  /\ indexId \in IndexIds
  /\ Commit(c, Join(StartSlots(Begin(c, "full", indexId), c, DefOf(indexId), 1), c))

\* getIndexWithData(indexId) up to its first suspension, lines 282-325; the
\* catch of lines 335-339 runs createFallbackIndex, which may throw itself
StartGetIndexWithData(c, indexId) ==
  /\ CanStart(c)
  /\ LET st == Begin(c, "full", indexId)
         fb == createFallbackIndex(indexId, SiteSeed(c, DirectTask))
         refs == [i \in DOMAIN fb.markets |-> FallbackRef(c, <<0, i>>)]
     IN Commit(c,
          IF indexId \in DOMAIN cachedIndexes
            THEN [st EXCEPT !.call.status = "returned",
                            !.call.result = Some(cachedIndexes[indexId])]
          ELSE IF IsDefined(getPredefinedIndex(indexId))
            THEN Join(StartSlots(st, c, DefOf(indexId), 1), c)
          ELSE IF fb.threw
            THEN [st EXCEPT !.call.status = "threw"]
          ELSE [st EXCEPT !.call.status = "returned",
                          !.call.result = Some([Get(fb.index) EXCEPT !.markets = Some(refs)]),
                          !.heap = [r \in DOMAIN @ \cup {refs[i] : i \in DOMAIN refs} |->
                                      IF r \in DOMAIN @ THEN @[r]
                                      ELSE fb.markets[CHOOSE i \in DOMAIN refs : refs[i] = r]]])

\* getAllIndexesWithBasicData() up to its first suspension, lines 492-523
StartGetAllIndexesWithBasicData(c) ==
  /\ CanStart(c)
  /\ Cardinality({b \in CallIds : calls[b].kind = "basic"}) < MaxBasicCalls
  /\ Commit(c, Join(StartDefs(Begin(c, "basic", ""), c, 1), c))

\* the exported getMarket / getMarketPriceHistory / getMarketOrderbook
StartGetMarket(c, marketId) ==
  /\ CanStart(c)
  /\ Commit(c, getMarket(Begin(c, "market", marketId), c, DirectTask))

StartGetMarketPriceHistory(c, marketId) ==
  /\ CanStart(c)
  /\ LET st == Begin(c, "history", marketId)
     IN Commit(c, getMarketPriceHistory(SetTask(st, DirectTask, NewTask("history", Undefined)),
                                        c, DirectTask))

StartGetMarketOrderbook(c, marketId) ==
  /\ CanStart(c)
  /\ LET st == Begin(c, "orderbook", marketId)
     IN Commit(c, getMarketOrderbook(SetTask(st, DirectTask, NewTask("orderbook", Undefined)),
                                     c, DirectTask))

\* the provider answers one outstanding request, or rejects it
Awaiting(c, t, step) ==
  /\ calls[c].status = "running"
  /\ t \in DOMAIN calls[c].tasks
  /\ calls[c].tasks[t].step = step

ExchangeResolves(c, t) ==
  /\ Awaiting(c, t, "exchange")
  /\ Commit(c, Join(getMarketResolved(StateOf(c), c, t,
                                      Exchange(TaskMarketId(calls[c], t))), c))

PriceHistoryResolves(c, t) ==
  /\ Awaiting(c, t, "history")
  /\ Commit(c, Join(getMarketPriceHistoryResolved(StateOf(c), c, t,
                                      PriceHistory(TaskMarketId(calls[c], t))), c))

OrderbookResolves(c, t) ==
  /\ Awaiting(c, t, "orderbook")
  /\ Commit(c, Join(getMarketOrderbookResolved(StateOf(c), c, t,
                                      Orderbook(TaskMarketId(calls[c], t))), c))

ProviderRejects(c, t) ==
  /\ calls[c].status = "running"
  /\ t \in DOMAIN calls[c].tasks
  /\ calls[c].tasks[t].step \in Suspended
  /\ Commit(c, Join(Rejected(StateOf(c), c, t, calls[c].tasks[t].step), c))

TaskIds == {DirectTask} \cup UNION {{<<d, s>> : s \in SlotsOf(d)} : d \in DefIdx}

Next ==
  \/ \E c \in CallIds, indexId \in IndexIds \cup {UnknownId} : StartGetIndexWithData(c, indexId)
  \/ \E c \in CallIds : StartGetAllIndexesWithBasicData(c)
  \/ \E c \in CallIds, marketId \in MarketIds : StartGetMarket(c, marketId)
  \/ \E c \in CallIds, marketId \in MarketIds : StartGetMarketPriceHistory(c, marketId)
  \/ \E c \in CallIds, marketId \in MarketIds : StartGetMarketOrderbook(c, marketId)
  \/ \E c \in CallIds, t \in TaskIds : ExchangeResolves(c, t)
  \/ \E c \in CallIds, t \in TaskIds : PriceHistoryResolves(c, t)
  \/ \E c \in CallIds, t \in TaskIds : OrderbookResolves(c, t)
  \/ \E c \in CallIds, t \in TaskIds : ProviderRejects(c, t)

Spec == Init /\ [][Next]_vars

\* ------------------------------------------------------------- properties
\* The calls of a kind that have returned, and what they returned.
ReturnedCalls(kind) == {c \in CallIds : calls[c].kind = kind /\ calls[c].status = "returned"}
ResultOf(c) == Get(calls[c].result)
\* A full call that resolved through its constituent pipelines (not a memo hit).
ResolvedFull == {c \in ReturnedCalls("full") : calls[c].tasks # EmptyMap}
\* Every Index handed out so far: by a full call, by a list call, or memoized.
ReturnedIndexes ==
  {ResultOf(c) : c \in ReturnedCalls("full")}
    \cup UNION {{ResultOf(c)[d] : d \in DOMAIN ResultOf(c)} : c \in ReturnedCalls("basic")}
    \cup {cachedIndexes[id] : id \in DOMAIN cachedIndexes}

\* What a Fallback Market for marketId looks like, and what a Market built
\* from the provider's answers for marketId looks like.
LooksFallback(m, marketId) ==
  /\ m.id = marketId
  /\ m.name = "Market " \o marketId
  /\ m.category = "Unknown"
  /\ m.priceHistory = Some(<<>>)
  /\ m.orderbook = Some(EmptyMap)
  /\ m.description = Undefined
LooksProvided(m, marketId) ==
  /\ m.id = marketId
  /\ m.name = Exchange(marketId).name
  /\ m.category # "Unknown"
  /\ m.end = Exchange(marketId).end
  /\ m.description = Some(Exchange(marketId).description)

\* C1: a full resolution of a known id returns, whatever fails; its Index has
\* a Fallback Market at exactly the slots where a provider call was rejected
\* and, at every other slot, the Market built from the provider's answers
\* (snapshot, price history and order book) for that slot's market id.
C1_FallbackExactlyAtFailedSlots ==
  \A c \in CallIds :
    calls[c].kind = "full" /\ calls[c].arg \in IndexIds =>
      LET d == DefOf(calls[c].arg)
          def == predefinedIndexes[d]
      IN /\ calls[c].status # "threw"
         /\ (calls[c].tasks # EmptyMap /\ AllFinished(calls[c], d)) => calls[c].status = "returned"
         /\ c \in ResolvedFull =>
              /\ DOMAIN Get(ResultOf(c).markets) = SlotsOf(d)
              /\ \A s \in SlotsOf(d) :
                   LET m == heap[Get(ResultOf(c).markets)[s]]
                       failed == calls[c].tasks[<<d, s>>].failedAt # ""
                   IN IF failed
                        THEN LooksFallback(m, def.makrtesIds[s])
                        ELSE /\ LooksProvided(m, def.makrtesIds[s])
                             /\ m.priceHistory = Some(PriceHistory(def.makrtesIds[s]))
                             /\ m.orderbook = Some(Orderbook(def.makrtesIds[s]))

\* C1 witness: a resolution returned with one slot failed and another not.
C1_Witness ==
  \E c \in ResolvedFull :
    LET d == DefOf(calls[c].arg)
    IN /\ \E s \in SlotsOf(d) : calls[c].tasks[<<d, s>>].failedAt = "history"
       /\ \E s \in SlotsOf(d) : calls[c].tasks[<<d, s>>].failedAt = ""

\* C2: no getIndexWithData call lets an exception reach its caller (an id
\* that is not predefined included: it gets a Fallback Index), and a known id
\* whose constituents all fail gets an Index with a Fallback Market in every
\* slot.
C2_FullResolutionNeverThrows ==
  \A c \in CallIds :
    calls[c].kind = "full" =>
      /\ calls[c].status # "threw"
      /\ (c \in ResolvedFull /\ \A t \in DOMAIN calls[c].tasks : calls[c].tasks[t].failedAt # "")
           => \A s \in DOMAIN Get(ResultOf(c).markets) :
                LooksFallback(heap[Get(ResultOf(c).markets)[s]], ResultOf(c).makrtesIds[s])

\* C3: every Index handed out has one market per declared market id, in the
\* order of the definition's list; and whenever a constituent pipeline has
\* finished, in whatever order, the market it produced carries its slot's id.
C3_MarketsFollowSlotOrder ==
  /\ \A index \in ReturnedIndexes :
       /\ IsDefined(index.markets)
       /\ Len(Get(index.markets)) = Len(index.makrtesIds)
       /\ index.makrtesIds = Get(getPredefinedIndex(index.id)).makrtesIds
       /\ \A i \in DOMAIN index.makrtesIds : heap[Get(index.markets)[i]].id = index.makrtesIds[i]
  /\ \A c \in CallIds : \A t \in DOMAIN calls[c].tasks :
       calls[c].tasks[t].step \in Finished =>
         heap[Get(calls[c].tasks[t].market)].id = TaskMarketId(calls[c], t)

\* C3 witness: two resolutions of one index have returned; the second found
\* the first one's market of slot 2 memoized when it started but had to
\* fetch slot 1 itself, so the first resolution's fetch for slot 2 completed
\* before its fetch for slot 1.
C3_Witness ==
  \E c \in ResolvedFull, b \in ResolvedFull :
    /\ c < b
    /\ calls[c].arg = calls[b].arg
    /\ LET d == DefOf(calls[c].arg)
       IN /\ Get(ResultOf(c).markets) = <<RealRef(c, <<d, 1>>), RealRef(c, <<d, 2>>)>>
          /\ Get(ResultOf(b).markets) = <<RealRef(b, <<d, 1>>), RealRef(c, <<d, 2>>)>>

\* C4: a list resolution never throws; once its pipelines have all finished
\* it has returned, with exactly one Index per predefined definition, in
\* definition order, each holding a market (real or fallback) for every
\* declared slot.
C4_BasicResolutionTotal ==
  \A c \in CallIds :
    calls[c].kind = "basic" =>
      /\ calls[c].status # "threw"
      /\ (\A d \in DefIdx : AllFinished(calls[c], d)) => calls[c].status = "returned"
      /\ calls[c].status = "returned" =>
           /\ DOMAIN ResultOf(c) = DefIdx
           /\ \A d \in DefIdx :
                /\ ResultOf(c)[d].id = predefinedIndexes[d].id
                /\ DOMAIN Get(ResultOf(c)[d].markets) = SlotsOf(d)
                /\ \A s \in SlotsOf(d) :
                     LET m == heap[Get(ResultOf(c)[d].markets)[s]]
                     IN \/ LooksFallback(m, predefinedIndexes[d].makrtesIds[s])
                        \/ LooksProvided(m, predefinedIndexes[d].makrtesIds[s])

\* C4 witness: a list resolution returned although every snapshot fetch of
\* one definition was rejected and one of another definition was too.
C4_Witness ==
  \E c \in ReturnedCalls("basic") :
    /\ \E d \in DefIdx : \A s \in SlotsOf(d) : calls[c].tasks[<<d, s>>].failedAt = "exchange"
    /\ \E d \in DefIdx : /\ \E s \in SlotsOf(d) : calls[c].tasks[<<d, s>>].failedAt = "exchange"
                         /\ \E s \in SlotsOf(d) : calls[c].tasks[<<d, s>>].failedAt = ""

\* C5 (as claimed): an entry of the Index memo is never removed or replaced,
\* and a getIndexWithData call for a memoized id returns the entry without
\* any provider fetch.
C5_MemoEntryNeverReplaced ==
  [][/\ \A id \in DOMAIN cachedIndexes :
          id \in DOMAIN cachedIndexes' /\ cachedIndexes'[id] = cachedIndexes[id]
     /\ \A c \in CallIds :
          (calls[c].kind = "none" /\ calls'[c].kind = "full"
             /\ calls'[c].arg \in DOMAIN cachedIndexes)
          => /\ calls'[c].status = "returned"
             /\ calls'[c].result = Some(cachedIndexes[calls'[c].arg])
             /\ calls'[c].tasks = EmptyMap]_vars

\* C5 (amended): an entry of the Index memo is never removed; a
\* getIndexWithData call that starts when the memo holds an entry for its id
\* returns that entry at once, without any provider fetch; and an entry is
\* replaced only by the completion of a resolution of the same id that was
\* still running when the entry was written (such resolutions are not
\* coalesced), which returns the Index that replaces it.
C5_MemoEntryKeptAndServed ==
  [][/\ \A id \in DOMAIN cachedIndexes :
          /\ id \in DOMAIN cachedIndexes'
          /\ cachedIndexes'[id] # cachedIndexes[id] =>
               \E c \in CallIds :
                 /\ calls[c].kind = "full" /\ calls[c].arg = id
                 /\ calls[c].status = "running"
                 /\ calls'[c].status = "returned"
                 /\ calls'[c].result = Some(cachedIndexes'[id])
     /\ \A c \in CallIds :
          (calls[c].kind = "none" /\ calls'[c].kind = "full"
             /\ calls'[c].arg \in DOMAIN cachedIndexes)
          => /\ calls'[c].status = "returned"
             /\ calls'[c].result = Some(cachedIndexes[calls'[c].arg])
             /\ calls'[c].tasks = EmptyMap]_vars

\* C5 witness: a resolution memoized its Index and a later call for the same
\* id was answered with it, without a single pipeline.
C5_Witness ==
  \E c \in ResolvedFull, b \in ReturnedCalls("full") :
    /\ c < b
    /\ calls[b].arg = calls[c].arg
    /\ calls[b].tasks = EmptyMap
    /\ ResultOf(b) = ResultOf(c)
    /\ cachedIndexes[calls[c].arg] = ResultOf(c)

\* the Index results of list resolutions, and those of full resolutions
BasicResults ==
  UNION {{ResultOf(c)[d] : d \in DOMAIN ResultOf(c)} : c \in ReturnedCalls("basic")}
FullResults ==
  {ResultOf(c) : c \in ReturnedCalls("full")} \cup {cachedIndexes[id] : id \in DOMAIN cachedIndexes}
SettledFields(index) ==
  /\ index.expired = Some(TRUE)
  /\ index.priceChange24h = Some([prefix |-> "+", neg |-> FALSE, mag |-> 0,
                                  decimals |-> 2, kind |-> "number"])
  /\ index.volume = Some(5)

C7_EqualProportions ==
  \A index \in ReturnedIndexes :
    LET n == Len(index.makrtesIds)
    IN n > 0 =>
         \A i \in DOMAIN Get(index.markets) :
           LET m == heap[Get(index.markets)[i]]
           IN m.proportion = <<1, n>> /\ n * m.proportion[1] = m.proportion[2]

\* C7 witness: two indexes were resolved one after the other, the second
\* reusing a Market object of the first, and the first holds a fallback too.
C7_Witness ==
  \E c \in ResolvedFull, b \in ResolvedFull :
    /\ c < b
    /\ calls[c].arg # calls[b].arg
    /\ \E i \in DOMAIN Get(ResultOf(c).markets), j \in DOMAIN Get(ResultOf(b).markets) :
         Get(ResultOf(c).markets)[i] = Get(ResultOf(b).markets)[j]
    /\ \E i \in DOMAIN Get(ResultOf(c).markets) :
         LooksFallback(heap[Get(ResultOf(c).markets)[i]], ResultOf(c).makrtesIds[i])

\* C8: every Index handed out has, in every slot, position "YES" when the
\* definition's position code at the slot is 1 and "NO" otherwise, in every
\* later state.
C8_PositionFollowsCode ==
  \A index \in ReturnedIndexes :
    \A i \in DOMAIN Get(index.markets) :
      heap[Get(index.markets)[i]].position =
        IF Get(getPredefinedIndex(index.id)).positionNames[i] = 1 THEN "YES" ELSE "NO"

\* C8 witness: a list resolution returned an Index with a YES and a NO slot,
\* one of them a real market, the other a fallback.
C8_Witness ==
  \E index \in BasicResults :
    \E i, j \in DOMAIN Get(index.markets) :
      /\ index.positionNames[i] = 1 /\ index.positionNames[j] = 2
      /\ LooksProvided(heap[Get(index.markets)[i]], index.makrtesIds[i])
      /\ LooksFallback(heap[Get(index.markets)[j]], index.makrtesIds[j])

\* the task t of call c is new in this step, or was suspended at step before it
TaskStarts(c, t) == t \notin DOMAIN calls[c].tasks /\ t \in DOMAIN calls'[c].tasks
TaskLeaves(c, t, step) ==
  /\ t \in DOMAIN calls[c].tasks
  /\ calls[c].tasks[t].step = step
  /\ calls'[c].tasks[t].step # step

\* C9: once sdk.getExchange (sdk.getOrderbook) has answered for a key, the
\* market memo (order-book memo) holds the key from then on; a getMarket
\* (getMarketOrderbook) call for a memoized key, direct or inside a
\* resolution, returns the memoized value and sends no request to the
\* provider; and no step changes both memos.
C9_MarketAndOrderbookMemos ==
  [][/\ \A k \in DOMAIN cachedMarkets : k \in DOMAIN cachedMarkets'
     /\ \A k \in DOMAIN cachedOrderbooks : k \in DOMAIN cachedOrderbooks'
     /\ \A c \in CallIds : \A t \in DOMAIN calls'[c].tasks :
          LET key == TaskKey(calls'[c], t)
              after == calls'[c].tasks[t]
          IN /\ (TaskLeaves(c, t, "exchange") /\ after.failedAt = "")
                  => /\ key \in DOMAIN cachedMarkets'
                     /\ heap'[cachedMarkets'[key]].id = TaskMarketId(calls'[c], t)
             /\ (TaskLeaves(c, t, "orderbook") /\ after.failedAt = "")
                  => /\ key \in DOMAIN cachedOrderbooks'
                     /\ cachedOrderbooks'[key] = Orderbook(TaskMarketId(calls'[c], t))
             /\ (TaskStarts(c, t) /\ key \in DOMAIN cachedMarkets)
                  => /\ after.step # "exchange"
                     /\ calls'[c].kind = "market"
                          => /\ calls'[c].status = "returned"
                             /\ calls'[c].result = Some(cachedMarkets[key])
                     /\ calls'[c].kind \in {"full", "basic"}
                          => after.market = Some(cachedMarkets[key])
             /\ ((TaskStarts(c, t) \/ TaskLeaves(c, t, "history"))
                   /\ key \in DOMAIN cachedOrderbooks)
                  => /\ after.step # "orderbook"
                     /\ calls'[c].kind = "orderbook"
                          => /\ calls'[c].status = "returned"
                             /\ calls'[c].result = Some(cachedOrderbooks[key])
     /\ cachedMarkets' # cachedMarkets => cachedOrderbooks' = cachedOrderbooks
     /\ cachedOrderbooks' # cachedOrderbooks => cachedMarkets' = cachedMarkets]_vars

\* C9 witness: a direct getMarket call returned the Market object that an
\* earlier call had fetched and memoized.
C9_Witness ==
  \E c \in ReturnedCalls("market") :
    /\ ResultOf(c)[1] # c
    /\ cachedMarkets[TaskKey(calls[c], DirectTask)] = ResultOf(c)

\* C10: once sdk.getPriceHistory has answered a getMarketPriceHistory call,
\* the price-history memo holds the key, and the call returned the trade
\* arrays the provider sent.
C10_PriceHistoryMemoized ==
  \A c \in ReturnedCalls("history") :
    /\ TaskKey(calls[c], DirectTask) \in DOMAIN cachedPriceHistories
    /\ ResultOf(c) = PriceHistory(calls[c].arg)

\* ------------------------------------------------------------- sharing
\* The references an Index holds in its markets field.
MarketRefs(index) ==
  IF IsDefined(index.markets)
    THEN {Get(index.markets)[i] : i \in DOMAIN Get(index.markets)}
    ELSE {}
\* The index ids that hold the Market object r: an Index already handed out,
\* or a constituent pipeline of a resolution that is still being built.
Holders(r) ==
  {index.id : index \in {x \in ReturnedIndexes : r \in MarketRefs(x)}}
    \cup {predefinedIndexes[t[1]].id :
            t \in UNION {{u \in DOMAIN calls[c].tasks :
                            /\ u # DirectTask
                            /\ calls[c].status = "running"
                            /\ calls[c].tasks[u].market = Some(r)} : c \in CallIds}}
\* The index ids whose constituent pipelines wrote into r in this step: the
\* pipeline moved and either carries r (lines 305-306, 310, 314) or left the
\* price-history fetch with r the memoized Market of its key (lines 229-233).
Writers(r) ==
  {predefinedIndexes[t[1]].id :
     t \in UNION {{u \in DOMAIN calls'[c].tasks :
                     /\ u # DirectTask
                     /\ (u \notin DOMAIN calls[c].tasks
                           \/ calls'[c].tasks[u] # calls[c].tasks[u])
                     /\ \/ calls'[c].tasks[u].market = Some(r)
                        \/ /\ TaskLeaves(c, u, "history")
                           /\ TaskKey(calls[c], u) \in DOMAIN cachedMarkets
                           /\ cachedMarkets[TaskKey(calls[c], u)] = r} : c \in CallIds}}

\* C11: no step of a resolution changes a Market object that an Index of a
\* different index id holds, handed out or still being built.
C11_NoMarketSharedAcrossIds ==
  [][\A r \in DOMAIN heap :
       heap'[r] # heap[r] => \A w \in Writers(r) : \A h \in Holders(r) : w = h]_vars

\* ------------------------------------------------------------- volume
\* sdk.getPriceHistory has answered a request for marketId: a direct
\* getMarketPriceHistory call returned, or a constituent pipeline went on
\* from its price-history step.
HistoryFetched(marketId) ==
  \E c \in CallIds : \E t \in DOMAIN calls[c].tasks :
    /\ TaskMarketId(calls[c], t) = marketId
    /\ \/ calls[c].kind = "history" /\ calls[c].status = "returned"
       \/ /\ calls[c].kind = "full"
          /\ \/ calls[c].tasks[t].step \in {"orderbook", "real"}
             \/ calls[c].tasks[t].failedAt = "orderbook"
\* Sum of volumeBase over the first position's array (0 if empty or absent).
PrimaryVolume(priceHistory) ==
  IF Len(priceHistory) > 0
    THEN SumInts([i \in DOMAIN priceHistory[1] |-> priceHistory[1][i].volumeBase])
    ELSE 0

\* C20: the memoized Market of a key has the volume of the first array of
\* the price history fetched for it, and volume 0 while none was fetched.
C20_VolumeFollowsPriceHistory ==
  \A key \in DOMAIN cachedMarkets :
    LET m == heap[cachedMarkets[key]]
    IN m.volume = IF HistoryFetched(m.id) THEN PrimaryVolume(PriceHistory(m.id)) ELSE 0

\* ------------------------------------------------------------- derived fields
\* calculateIndexFields applied to an Index whose constituents carry any
\* prices (the provider's prices are not clamped to [0, 1]): at most
\* MaxMarkets constituents, position codes 1 and 2, prices in thousandths.
MaxMarkets == 2
FieldPrices == {0 - 200, 0, 300, 800, 1000, 1500}
FieldVolumes == {0, 1250000}
FieldInputs ==
  UNION {{[fn |-> "calculateIndexFields", status |-> status, codes |-> codes,
           prices |-> prices, volume |-> volume] :
            status \in {"Active", "Inactive"}, codes \in [1..n -> {1, 2}],
            prices \in [1..n -> FieldPrices], volume \in FieldVolumes} :
         n \in 0..MaxMarkets}
\* The Index and the Market objects the drawn input stands for.
FieldIndex(in) ==
  [CopyOf(predefinedIndexesSrc[3]) EXCEPT
     !.status = in.status,
     !.positionNames = in.codes,
     !.makrtesIds = [i \in DOMAIN in.codes |-> "544924"],
     !.icons = [i \in DOMAIN in.codes |-> ""],
     !.markets = Some([i \in DOMAIN in.codes |-> i])]
FieldMarkets(in) ==
  [i \in DOMAIN in.codes |->
     [MarketOf(Exchange("544924")) EXCEPT !.price = in.prices[i], !.volume = in.volume]]

IdleService ==
  /\ cachedIndexes = EmptyMap
  /\ cachedMarkets = EmptyMap
  /\ cachedPriceHistories = EmptyMap
  /\ cachedOrderbooks = EmptyMap
  /\ heap = EmptyMap
  /\ calls = [c \in CallIds |-> NoCall]
ServiceUntouched ==
  UNCHANGED <<cachedIndexes, cachedMarkets, cachedPriceHistories, cachedOrderbooks,
              heap, calls>>

InitFields == IdleService /\ input \in FieldInputs /\ output = <<>>
ApplyCalculateIndexFields ==
  /\ input.fn = "calculateIndexFields"
  /\ output = <<>>
  /\ output' = <<calculateIndexFields(FieldIndex(input), FieldMarkets(input), 0).index>>
  /\ UNCHANGED input
  /\ ServiceUntouched
NextFields == ApplyCalculateIndexFields
SpecFields == InitFields /\ [][NextFields]_vars

\* C18: for a non-expired Index with n > 0 constituents, yieldRange is the
\* sum of the per-slot contributions ((1/price - 1)*100 for code 1 and
\* price > 0, (1/(1-price) - 1)*100 for another code and price < 1, else 0)
\* divided by n, yieldLoss is half of it, and marketCap is twice the volume.
C18_YieldFormula ==
  (output # <<>> /\ input.status = "Active" /\ Len(input.codes) > 0) =>
    LET n == Len(input.codes)
        contribution(i) ==
          IF input.codes[i] = 1 /\ input.prices[i] > 0
            THEN TruncDiv((1000 - input.prices[i]) * 100000, input.prices[i])
          ELSE IF input.codes[i] # 1 /\ input.prices[i] < 1000
            THEN TruncDiv(100000000, 1000 - input.prices[i]) - 100000
          ELSE 0
        yieldValue == TruncDiv(SumInts([i \in 1..n |-> contribution(i)]), n)
        index == output[1]
    IN /\ index.yieldRange = Some(Fmt("+", yieldValue < 0, RoundDiv(Abs(yieldValue), 100), 1))
       /\ index.yieldLoss = Some(Fmt("-", yieldValue < 0, RoundDiv(Abs(yieldValue), 200), 1))
       /\ index.marketCap = Some(2 * Get(index.volume))

\* C18 witness: codes [1, 2] with prices [0.80, 0.30] gave "+33.9%" and
\* "-17.0%", with a market cap of twice a non-zero volume.
C18_Witness ==
  /\ output # <<>>
  /\ input.status = "Active"
  /\ input.codes = <<1, 2>>
  /\ input.prices = <<800, 300>>
  /\ output[1].yieldRange = Some(Fmt("+", FALSE, 339, 1))
  /\ output[1].yieldLoss = Some(Fmt("-", FALSE, 170, 1))
  /\ Get(output[1].volume) > 0
  /\ output[1].marketCap = Some(2 * Get(output[1].volume))

\* C19: for a non-expired Index and any constituent prices, yieldRange reads
\* "+X.X%" and yieldLoss "-X.X%" with X.X a non-negative one-decimal number.
C19_YieldFormat ==
  (output # <<>> /\ input.fn = "calculateIndexFields" /\ input.status = "Active") =>
    LET yieldRange == Get(output[1].yieldRange)
        yieldLoss == Get(output[1].yieldLoss)
    IN /\ yieldRange.prefix = "+" /\ yieldLoss.prefix = "-"
       /\ yieldRange.kind = "number" /\ yieldLoss.kind = "number"
       /\ yieldRange.decimals = 1 /\ yieldLoss.decimals = 1
       /\ ~yieldRange.neg /\ ~yieldLoss.neg

\* ------------------------------------------------------------- index price history
\* Array.prototype.sort((a, b) => a.timestamp - b.timestamp): stable,
\* ascending by timestamp.
\* Mutant of InsertByTimestamp: the records stay in arrival order.
AppendRecord(sorted, record) == Append(sorted, record)

InsertByTimestamp(sorted, record) ==
  LET k == Cardinality({i \in DOMAIN sorted : sorted[i].timestamp <= record.timestamp})
  IN SubSeq(sorted, 1, k) \o <<record>> \o SubSeq(sorted, k + 1, Len(sorted))
RECURSIVE SortByTimestamp(_)
SortByTimestamp(records) ==
  IF records = <<>> THEN <<>>
  ELSE InsertByTimestamp(SortByTimestamp(SubSeq(records, 1, Len(records) - 1)),
                         records[Len(records)])

NowSeconds == Now * 3600
DayInSeconds == 86400
MockDays == 30
\* generateMockPriceHistory: the records for i = days down to 0, the price a
\* clamped random walk; three draws per record after the first draw.
RECURSIVE MockRecords(_, _, _, _)
MockRecords(i, price, sd, k) ==
  IF i < 0 THEN <<>>
  ELSE LET change == Rnd(sd, k) * 6 - 3000
           next == Max(500, Min(990, price + TruncDiv(price * change, 100000)))
       IN <<[price |-> next, volumeBase |-> Rnd(sd, k + 1) * 10,
             timestamp |-> NowSeconds - i * DayInSeconds, trader |-> Rnd(sd, k + 2)]>>
            \o MockRecords(i - 1, next, sd, k + 3)
generateMockPriceHistory(days, sd) == MockRecords(days, 750 + Rnd(sd, 0) \div 5, sd, 1)

\* the trade array getIndexPriceHistory takes from a market (lines 357-362):
\* none unless priceHistory[0] has trades; then priceHistory[positionIndex],
\* or priceHistory[0] where that element does not exist
SelectedHistory(market, positionName) ==
  IF ~(IsDefined(market.priceHistory) /\ Len(Get(market.priceHistory)) > 0
         /\ Len(Get(market.priceHistory)[1]) > 0)
    THEN <<>>
  ELSE LET priceHistory == Get(market.priceHistory)
           positionIndex == IF positionName = 1 THEN 0 ELSE 1
       IN IF positionIndex + 1 \in DOMAIN priceHistory
            THEN priceHistory[positionIndex + 1] ELSE priceHistory[1]

RECURSIVE AllRecords(_, _, _, _)
AllRecords(index, H, i, sd) ==
  IF i = 0 THEN <<>>
  ELSE LET before == AllRecords(index, H, i - 1, sd)
           positionHistory == SelectedHistory(H[Get(index.markets)[i]], index.positionNames[i])
       IN before \o [j \in DOMAIN positionHistory |->
                       [price |-> positionHistory[j].price,
                        volumeBase |-> positionHistory[j].volumeBase,
                        timestamp |-> positionHistory[j].timestamp,
                        trader |-> Rnd(sd, Len(before) + j)]]

getIndexPriceHistory(index, H, sd) ==
  IF ~IsDefined(index.markets) \/ Len(Get(index.markets)) = 0
    THEN generateMockPriceHistory(MockDays, sd)
  ELSE LET allRecords == AllRecords(index, H, Len(Get(index.markets)), sd)
       IN IF Len(allRecords) = 0
            THEN generateMockPriceHistory(MockDays, sd)
            ELSE SortByTimestamp(allRecords)

\* The inputs: an Index without markets, or with up to MaxMarkets markets,
\* each with one of the price-history shapes below and position code 1 or 2.
Trade(t, p) == [price |-> p, volumeBase |-> 10 * t, timestamp |-> t]
HistoryShapes ==
  { Undefined,
    Some(<<>>),
    Some(<< <<>> >>),
    Some(<< <<Trade(1, 500), Trade(3, 600)>>, <<>> >>),
    Some(<< <<Trade(2, 400)>>, <<Trade(4, 450)>> >>),
    Some(<< <<>>, <<Trade(4, 450)>> >>),
    Some(<< <<Trade(5, 700)>> >>),
    Some(<< <<Trade(3, 600), Trade(1, 500)>>, <<Trade(2, 400)>> >>) }
HistoryInputs ==
  {[fn |-> "getIndexPriceHistory", markets |-> FALSE, codes |-> <<>>, histories |-> <<>>]}
    \cup UNION {{[fn |-> "getIndexPriceHistory", markets |-> TRUE, codes |-> codes,
                  histories |-> histories] :
                   codes \in [1..n -> {1, 2}], histories \in [1..n -> HistoryShapes]} :
                n \in 0..MaxMarkets}
HistoryIndex(in) ==
  [CopyOf(predefinedIndexesSrc[3]) EXCEPT
     !.positionNames = in.codes,
     !.makrtesIds = [i \in DOMAIN in.codes |-> "544924"],
     !.icons = [i \in DOMAIN in.codes |-> ""],
     !.markets = IF in.markets THEN Some([i \in DOMAIN in.codes |-> i]) ELSE Undefined]
HistoryMarkets(in) ==
  [i \in DOMAIN in.codes |->
     [MarketOf(Exchange("544924")) EXCEPT !.priceHistory = in.histories[i]]]

InitHistory == IdleService /\ input \in HistoryInputs /\ output = <<>>
ApplyGetIndexPriceHistory ==
  /\ input.fn = "getIndexPriceHistory"
  /\ output = <<>>
  /\ output' = <<getIndexPriceHistory(HistoryIndex(input), HistoryMarkets(input), 0)>>
  /\ UNCHANGED input
  /\ ServiceUntouched
NextHistory == ApplyGetIndexPriceHistory
SpecHistory == InitHistory /\ [][NextHistory]_vars

\* C12: when some constituent's selected array has trades, the series holds
\* exactly the trades of the selected arrays, price, volumeBase and timestamp
\* preserved: of each constituent that has a price history, array 0 for
\* position code 1 and array 1 otherwise (array 0 where array 1 is absent).
C12_SelectedSideTrades ==
  (output # <<>> /\ input.fn = "getIndexPriceHistory" /\ input.markets) =>
    LET selected(i) ==
          IF IsDefined(input.histories[i]) /\ Len(Get(input.histories[i])) > 0
            THEN IF input.codes[i] = 1 \/ 2 \notin DOMAIN Get(input.histories[i])
                   THEN Get(input.histories[i])[1] ELSE Get(input.histories[i])[2]
            ELSE <<>>
        total == SumInts([i \in DOMAIN input.codes |-> Len(selected(i))])
        occurrences(x) ==
          SumInts([i \in DOMAIN input.codes |->
                     Cardinality({j \in DOMAIN selected(i) : selected(i)[j] = x})])
        strip(r) == [price |-> r.price, volumeBase |-> r.volumeBase, timestamp |-> r.timestamp]
        series == output[1]
    IN total > 0 =>
         /\ Len(series) = total
         /\ \A k \in DOMAIN series :
              Cardinality({j \in DOMAIN series : strip(series[j]) = strip(series[k])})
                = occurrences(strip(series[k]))

\* C13: whatever the Index, the series is not empty and its timestamps never
\* decrease.
C13_NonEmptyAscending ==
  (output # <<>> /\ input.fn = "getIndexPriceHistory") =>
    /\ Len(output[1]) > 0
    /\ \A k \in 1..(Len(output[1]) - 1) : output[1][k].timestamp <= output[1][k + 1].timestamp

\* C13 witness: a constituent whose trades arrived out of time order
\* (timestamps 3, 1) and another one gave a series that starts 1, 2, 3.
C13_Witness ==
  /\ output # <<>>
  /\ input.fn = "getIndexPriceHistory"
  /\ \E i \in DOMAIN input.codes :
       /\ input.codes[i] = 1
       /\ input.histories[i] = Some(<< <<Trade(3, 600), Trade(1, 500)>>, <<Trade(2, 400)>> >>)
  /\ Len(output[1]) >= 3
  /\ [k \in 1..3 |-> output[1][k].timestamp] = <<1, 2, 3>>

\* C14: without constituents, or with no trade in any constituent, the
\* series is the synthetic one: exactly 30 points, one day apart, ascending.
C14_SyntheticThirtyPoints ==
  (/\ output # <<>>
   /\ input.fn = "getIndexPriceHistory"
   /\ \A i \in DOMAIN input.histories :
        input.histories[i] \in {Undefined, Some(<<>>), Some(<< <<>> >>)}) =>
    /\ Len(output[1]) = 30
    /\ \A k \in 1..(Len(output[1]) - 1) :
         output[1][k + 1].timestamp - output[1][k].timestamp = DayInSeconds

\* ------------------------------------------------------------- candles
\* Mutant of IntervalRecords: the bucket closed at its upper end.
IntervalRecordsClosed(sortedRecords, candleStart, candleEnd) ==
  SelectSeq(sortedRecords, LAMBDA record :
    record.timestamp * 1000 >= candleStart /\ record.timestamp * 1000 <= candleEnd)

\* lines 462-464: the records of one interval
IntervalRecords(sortedRecords, candleStart, candleEnd) ==
  SelectSeq(sortedRecords, LAMBDA record :
    record.timestamp * 1000 >= candleStart /\ record.timestamp * 1000 < candleEnd)

\* Mutant of CandleOf: the candle closes at the price it opened at.
CandleOfOpenOnly(intervalRecords, candleStart) ==
  LET prices == {intervalRecords[i].price : i \in DOMAIN intervalRecords}
  IN [time |-> candleStart \div 1000,
      open |-> intervalRecords[1].price,
      high |-> CHOOSE p \in prices : \A q \in prices : q <= p,
      low |-> CHOOSE p \in prices : \A q \in prices : p <= q,
      close |-> intervalRecords[1].price,
      volume |-> SumInts([i \in DOMAIN intervalRecords |-> intervalRecords[i].volumeBase])]

\* lines 467-481: the candle of a non-empty interval
CandleOf(intervalRecords, candleStart) ==
  LET prices == {intervalRecords[i].price : i \in DOMAIN intervalRecords}
  IN [time |-> candleStart \div 1000,
      open |-> intervalRecords[1].price,
      high |-> CHOOSE p \in prices : \A q \in prices : q <= p,
      low |-> CHOOSE p \in prices : \A q \in prices : p <= q,
      close |-> intervalRecords[Len(intervalRecords)].price,
      volume |-> SumInts([i \in DOMAIN intervalRecords |-> intervalRecords[i].volumeBase])]

\* lines 457-483: the loop over the intervals from time on
RECURSIVE CandlesFrom(_, _, _, _)
CandlesFrom(sortedRecords, time, endTime, intervalMs) ==
  IF time > endTime THEN <<>>
  ELSE LET intervalRecords == IntervalRecords(sortedRecords, time, time + intervalMs)
       IN (IF Len(intervalRecords) > 0 THEN <<CandleOf(intervalRecords, time)>> ELSE <<>>)
            \o CandlesFrom(sortedRecords, time + intervalMs, endTime, intervalMs)

\* generateCandleData: the candles, and the argument array as the call
\* leaves it (the sort works on a copy).
generateCandleData(tradeRecords, intervalHours) ==
  IF Len(tradeRecords) = 0
    THEN [candles |-> <<>>, tradeRecords |-> tradeRecords]
  ELSE LET intervalMs == intervalHours * 60 * 60 * 1000
           sortedRecords == SortByTimestamp(tradeRecords)
           startTime == sortedRecords[1].timestamp * 1000
           endTime == sortedRecords[Len(sortedRecords)].timestamp * 1000
       IN [candles |-> CandlesFrom(sortedRecords, startTime, endTime, intervalMs),
           tradeRecords |-> tradeRecords]

\* The inputs: every series of at most MaxTrades trades, in any order, at
\* these times (seconds) and prices, ten trades one hour apart, and a bucket
\* width of 1 or 4 hours.
MaxTrades == 3
CandleTrade(t, p) == [price |-> p, volumeBase |-> p \div 100 + t \div 3600, timestamp |-> t]
CandleTrades == {CandleTrade(t, p) : t \in {0, 3600, 14400, 32400}, p \in {300, 500}}
TenHourly == [i \in 1..10 |-> CandleTrade((i - 1) * 3600, 200 + 100 * (i % 4))]
CandleInputs ==
  {[fn |-> "generateCandleData", tradeRecords |-> tradeRecords, intervalHours |-> w] :
     tradeRecords \in UNION {[1..n -> CandleTrades] : n \in 0..MaxTrades} \cup {TenHourly},
     w \in {1, 4}}

InitCandles == IdleService /\ input \in CandleInputs /\ output = <<>>
ApplyGenerateCandleData ==
  /\ input.fn = "generateCandleData"
  /\ output = <<>>
  /\ output' = <<generateCandleData(input.tradeRecords, input.intervalHours)>>
  /\ UNCHANGED input
  /\ ServiceUntouched
NextCandles == ApplyGenerateCandleData
SpecCandles == InitCandles /\ [][NextCandles]_vars

\* C15: every candle stands for a bucket that holds at least one trade, and
\* has open = price of the earliest trade of the bucket, close = price of the
\* latest, high / low = largest / smallest price, volume = sum of volumeBase,
\* time = the bucket start in seconds; no trades give no candle, one trade
\* gives one candle with open = high = low = close = its price.
C15_CandleOHLCV ==
  (output # <<>> /\ input.fn = "generateCandleData") =>
    LET trades == input.tradeRecords
        w == input.intervalHours * 3600
        candles == output[1].candles
        t0 == CHOOSE t \in {trades[j].timestamp : j \in DOMAIN trades} :
                \A j \in DOMAIN trades : t <= trades[j].timestamp
    IN /\ trades = <<>> => candles = <<>>
       /\ Len(trades) = 1 =>
            /\ Len(candles) = 1
            /\ {candles[1].open, candles[1].high, candles[1].low, candles[1].close}
                 = {trades[1].price}
       /\ \A k \in DOMAIN candles :
            LET c == candles[k]
                B == {j \in DOMAIN trades :
                        trades[j].timestamp >= c.time /\ trades[j].timestamp < c.time + w}
                earliest == {j \in B : \A i \in B : trades[j].timestamp <= trades[i].timestamp}
                latest == {j \in B : \A i \in B : trades[i].timestamp <= trades[j].timestamp}
            IN /\ B # {}
               /\ c.open \in {trades[j].price : j \in earliest}
               /\ c.close \in {trades[j].price : j \in latest}
               /\ c.high \in {trades[j].price : j \in B}
               /\ c.low \in {trades[j].price : j \in B}
               /\ \A j \in B : c.low <= trades[j].price /\ trades[j].price <= c.high
               /\ c.volume = SumInts([j \in DOMAIN trades |->
                                        IF j \in B THEN trades[j].volumeBase ELSE 0])
               /\ (c.time - t0) % w = 0

\* C15 witness: a candle of several trades that opened at one price and
\* closed at another, from a series that was not in time order.
C15_Witness ==
  /\ output # <<>>
  /\ input.fn = "generateCandleData"
  /\ \E j \in 1..(Len(input.tradeRecords) - 1) :
       input.tradeRecords[j].timestamp > input.tradeRecords[j + 1].timestamp
  /\ \E k \in DOMAIN output[1].candles :
       /\ output[1].candles[k].open # output[1].candles[k].close
       /\ output[1].candles[k].low < output[1].candles[k].high

\* C16: the candles are those of the half-open buckets of width w that start
\* at the earliest timestamp: every trade lies in the bucket of exactly one
\* candle, the volumes add up to the series' volume, candle times strictly
\* increase, the argument array is left as it was, and ten hourly trades
\* with w = 4 hours give three candles.
C16_BucketsPartitionTrades ==
  (output # <<>> /\ input.fn = "generateCandleData" /\ input.tradeRecords # <<>>) =>
    LET trades == input.tradeRecords
        w == input.intervalHours * 3600
        candles == output[1].candles
        t0 == CHOOSE t \in {trades[j].timestamp : j \in DOMAIN trades} :
                \A j \in DOMAIN trades : t <= trades[j].timestamp
    IN /\ \A k \in DOMAIN candles : candles[k].time >= t0 /\ (candles[k].time - t0) % w = 0
       /\ \A j \in DOMAIN trades :
            Cardinality({k \in DOMAIN candles :
                           /\ candles[k].time <= trades[j].timestamp
                           /\ trades[j].timestamp < candles[k].time + w}) = 1
       /\ SumInts([k \in DOMAIN candles |-> candles[k].volume])
            = SumInts([j \in DOMAIN trades |-> trades[j].volumeBase])
       /\ \A k \in 1..(Len(candles) - 1) : candles[k].time < candles[k + 1].time
       /\ output[1].tradeRecords = trades
       /\ (trades = TenHourly /\ input.intervalHours = 4) => Len(candles) = 3

\* C16 witness: the ten hourly trades in 4-hour buckets gave the candles of
\* hours 0, 4 and 8.
C16_Witness ==
  /\ output # <<>>
  /\ input.fn = "generateCandleData"
  /\ input.tradeRecords = TenHourly
  /\ input.intervalHours = 4
  /\ [k \in DOMAIN output[1].candles |-> output[1].candles[k].time] = <<0, 14400, 28800>>

\* ------------------------------------------------------------- index order book
\* Mutant of OrderbookKeys: only the first constituent's order book is read.
OrderbookKeysFirstOnly(index, H) ==
  IF IsDefined(H[Get(index.markets)[1]].orderbook)
    THEN DOMAIN Get(H[Get(index.markets)[1]].orderbook) ELSE {}

\* lines 404-419: the asset ids of the constituents' order books
OrderbookKeys(index, H) ==
  UNION {IF IsDefined(H[Get(index.markets)[i]].orderbook)
           THEN DOMAIN Get(H[Get(index.markets)[i]].orderbook) ELSE {} :
         i \in DOMAIN Get(index.markets)}

\* getIndexOrderbook: one placeholder entry per asset id, its bids and asks
\* created empty and never filled (the sorts of lines 422-430 find nothing to
\* sort); H is read only.
getIndexOrderbook(index, H) ==
  IF ~IsDefined(index.markets) \/ Len(Get(index.markets)) = 0
    THEN EmptyMap
    ELSE [assetId \in OrderbookKeys(index, H) |->
            [market |-> index.name, asset_id |-> assetId, timestamp |-> Now,
             bids |-> <<>>, asks |-> <<>>, hash |-> ""]]

\* The inputs: an Index (one of two names) without markets, or with up to
\* MaxMarkets markets, each without an order book or with one of these.
Book(assetIds) ==
  [a \in assetIds |->
     [market |-> "544924", asset_id |-> a, timestamp |-> Now - 1,
      bids |-> << [price |-> 300, size |-> 10], [price |-> 400, size |-> 5] >>,
      asks |-> << [price |-> 700, size |-> 10], [price |-> 600, size |-> 5] >>, hash |-> "h"]]
BookShapes ==
  {Undefined, Some(EmptyMap), Some(Book({"a"})), Some(Book({"b"})), Some(Book({"a", "b"})),
   Some(Book({"c"})), Some(Book({"a", "c"}))}
BookInputs ==
  UNION {{[fn |-> "getIndexOrderbook", name |-> name, markets |-> FALSE, orderbooks |-> <<>>]}
           \cup UNION {{[fn |-> "getIndexOrderbook", name |-> name, markets |-> TRUE,
                         orderbooks |-> orderbooks] :
                          orderbooks \in [1..n -> BookShapes]} : n \in 0..MaxMarkets} :
         name \in {predefinedIndexesSrc[2].name, predefinedIndexesSrc[3].name}}
BookIndex(in) ==
  [CopyOf(predefinedIndexesSrc[3]) EXCEPT
     !.name = in.name,
     !.positionNames = [i \in DOMAIN in.orderbooks |-> 1],
     !.makrtesIds = [i \in DOMAIN in.orderbooks |-> "544924"],
     !.icons = [i \in DOMAIN in.orderbooks |-> ""],
     !.markets = IF in.markets THEN Some([i \in DOMAIN in.orderbooks |-> i]) ELSE Undefined]
BookMarkets(in) ==
  [i \in DOMAIN in.orderbooks |->
     [MarketOf(Exchange("544924")) EXCEPT !.orderbook = in.orderbooks[i]]]

InitBooks == IdleService /\ input \in BookInputs /\ output = <<>>
\* output: the aggregate, and the constituents' order books after the call
ApplyGetIndexOrderbook ==
  /\ input.fn = "getIndexOrderbook"
  /\ output = <<>>
  /\ output' = <<[aggregatedOrderbook |-> getIndexOrderbook(BookIndex(input), BookMarkets(input)),
                  orderbooks |-> [i \in DOMAIN input.orderbooks |->
                                    BookMarkets(input)[i].orderbook]]>>
  /\ UNCHANGED input
  /\ ServiceUntouched
NextBooks == ApplyGetIndexOrderbook
SpecBooks == InitBooks /\ [][NextBooks]_vars

\* C17: the aggregate's keys are exactly the asset ids found in the
\* constituents' order books (none without constituents or order books);
\* each entry has asset_id = its key, market = the Index name, hash "", bids
\* never increasing and asks never decreasing in price; the constituents'
\* order books are as they were.
C17_AggregateOrderbook ==
  (output # <<>> /\ input.fn = "getIndexOrderbook") =>
    LET aggregated == output[1].aggregatedOrderbook
        present == {i \in DOMAIN input.orderbooks : IsDefined(input.orderbooks[i])}
    IN /\ DOMAIN aggregated = UNION {DOMAIN Get(input.orderbooks[i]) : i \in present}
       /\ \A a \in DOMAIN aggregated :
            /\ aggregated[a].asset_id = a
            /\ aggregated[a].market = input.name
            /\ aggregated[a].hash = ""
            /\ \A k \in 1..(Len(aggregated[a].bids) - 1) :
                 aggregated[a].bids[k].price >= aggregated[a].bids[k + 1].price
            /\ \A k \in 1..(Len(aggregated[a].asks) - 1) :
                 aggregated[a].asks[k].price <= aggregated[a].asks[k + 1].price
       /\ output[1].orderbooks = input.orderbooks

\* C17 witness: two constituents with the order books
\* {a, c} and {b} gave an aggregate with the three asset ids.
C17_Witness ==
  /\ output # <<>>
  /\ input.fn = "getIndexOrderbook"
  /\ Len(input.orderbooks) = 2
  /\ input.orderbooks[1] = Some(Book({"a", "c"}))
  /\ input.orderbooks[2] = Some(Book({"b"}))
  /\ DOMAIN output[1].aggregatedOrderbook = {"a", "b", "c"}

\* ------------------------------------------------------------- frame conditions
\* C21: a list resolution sends only sdk.getExchange requests (none of its
\* pipelines is ever suspended at, or failed at, a price-history or
\* order-book fetch), and no step of it changes the order-book memo, the
\* price-history memo or the Index memo.
C21_BasicFetchesSnapshotsOnly ==
  [][\A c \in CallIds :
       calls'[c].kind = "basic" =>
         /\ \A t \in DOMAIN calls'[c].tasks :
              /\ calls'[c].tasks[t].step \in {"exchange", "real", "fallback"}
              /\ calls'[c].tasks[t].failedAt \in {"", "exchange"}
         /\ calls'[c] # calls[c] =>
              /\ cachedOrderbooks' = cachedOrderbooks
              /\ cachedPriceHistories' = cachedPriceHistories
              /\ cachedIndexes' = cachedIndexes]_vars

\* C21 witness: a list resolution returned with a provider-derived Market
\* while the three memos were still empty.
C21_Witness ==
  \E c \in ReturnedCalls("basic") :
    /\ \E t \in DOMAIN calls[c].tasks : calls[c].tasks[t].step = "real"
    /\ cachedOrderbooks = EmptyMap
    /\ cachedPriceHistories = EmptyMap
    /\ cachedIndexes = EmptyMap

\* ------------------------------------------------------------- definition objects
\* The Index objects one resolution of definition d touches, by reference:
\* the element of predefinedIndexes, and the object the derived fields are
\* written to.
DefinitionRef(d) == <<"definition", d>>
\* Mutant of IndexObject: no spread copy, the resolution works on the
\* definition object itself.
IndexObjectAliased(d) == DefinitionRef(d)

\* { ...predefinedIndex } (lines 296, 502, 764): a new object
IndexObject(d) == <<"copy", d>>

\* What the resolution writes into its Index object: markets and the fields
\* of calculateIndexFields (329), calculateBasicIndexFields (526) or
\* createFallbackIndex (767-785).
WrittenIndex(fn, d, H, sd) ==
  LET def == predefinedIndexes[d]
      refs == Some([i \in DOMAIN def.makrtesIds |-> i])
  IN CASE fn = "getIndexWithData" ->
            calculateIndexFields([CopyOf(def) EXCEPT !.markets = refs], H, sd).index
       [] fn = "getAllIndexesWithBasicData" ->
            calculateBasicIndexFields([CopyOf(def) EXCEPT !.markets = refs], H, sd).index
       [] OTHER ->
            [Get(createFallbackIndex(def.id, sd).index) EXCEPT !.markets = refs]

\* The objects after the resolution.
ObjectsAfter(fn, d, H, sd) ==
  [r \in {DefinitionRef(d), IndexObject(d)} |->
     IF r = IndexObject(d) THEN WrittenIndex(fn, d, H, sd) ELSE CopyOf(predefinedIndexes[d])]

ObjectInputs ==
  {[fn |-> fn, d |-> d, price |-> price, volume |-> volume, sd |-> sd] :
     fn \in {"getIndexWithData", "getAllIndexesWithBasicData", "createFallbackIndex"},
     d \in DefIdx, price \in FieldPrices, volume \in FieldVolumes,
     sd \in 0..(Len(RandomSeq) - 1)}
ObjectMarkets(in) ==
  [i \in SlotsOf(in.d) |->
     [MarketOf(Exchange(predefinedIndexes[in.d].makrtesIds[i]))
        EXCEPT !.price = in.price, !.volume = in.volume]]

InitObjects == IdleService /\ input \in ObjectInputs /\ output = <<>>
ApplyResolution ==
  /\ input.fn \in {"getIndexWithData", "getAllIndexesWithBasicData", "createFallbackIndex"}
  /\ output = <<>>
  /\ output' = <<ObjectsAfter(input.fn, input.d, ObjectMarkets(input), input.sd)>>
  /\ UNCHANGED input
  /\ ServiceUntouched
NextObjects == ApplyResolution
SpecObjects == InitObjects /\ [][NextObjects]_vars

\* C22: after a full resolution, a list resolution or a fallback
\* construction, the definition object has the id, name, market ids,
\* position codes, contract address, status, resolution-time text, avgPrice
\* and confilmYield it had, and none of the derived fields; they are on
\* another object.
C22_DefinitionsReadOnly ==
  (output # <<>> /\ input.fn \in {"getIndexWithData", "getAllIndexesWithBasicData",
                                  "createFallbackIndex"}) =>
    LET def == predefinedIndexes[input.d]
        after == output[1][DefinitionRef(input.d)]
    IN /\ after.id = def.id /\ after.name = def.name
       /\ after.makrtesIds = def.makrtesIds /\ after.positionNames = def.positionNames
       /\ after.contractAddress = def.contractAddress /\ after.status = def.status
       /\ after.resolutionTime = def.resolutionTime
       /\ after.avgPrice = def.avgPrice /\ after.confilmYield = def.confilmYield
       /\ \A f \in {"priceChange24h", "yieldRange", "yieldLoss", "markets",
                    "daysRemaining", "volume", "marketCap", "settlementDate", "expired"} :
            after[f] = Undefined
       /\ \E r \in DOMAIN output[1] :
            /\ r # DefinitionRef(input.d)
            /\ IsDefined(output[1][r].expired)
            /\ IsDefined(output[1][r].markets)

\* C22 witness: the full resolution of the inactive definition wrote
\* confilmYield 8.5 and avgPrice on its copy while the definition kept 0.
C22_Witness ==
  /\ output # <<>>
  /\ input.fn = "getIndexWithData"
  /\ predefinedIndexes[input.d].status = "Inactive"
  /\ output[1][IndexObject(input.d)].confilmYield = 85
  /\ output[1][IndexObject(input.d)].avgPrice # 0
  /\ output[1][DefinitionRef(input.d)].confilmYield = 0
  /\ output[1][DefinitionRef(input.d)].avgPrice = 0

\* ------------------------------------------------------------- memo entries
\* C23: a value is complete when it enters a memo map and is not modified in
\* place afterwards: no step changes the Market object the market memo holds
\* for a key, so no reader of the memo sees it without the fields its
\* resolution gives it later.
C23_MemoizedMarketsComplete ==
  [][\A key \in DOMAIN cachedMarkets :
       heap'[cachedMarkets[key]] = heap[cachedMarkets[key]]]_vars

\* ------------------------------------------------------------- pipeline order
\* The step a constituent pipeline is at before a step of the system ("new"
\* when the pipeline does not exist yet).
StepBefore(c, t) == IF t \in DOMAIN calls[c].tasks THEN calls[c].tasks[t].step ELSE "new"

\* C24: in a full resolution each slot asks for the snapshot, then the price
\* history, then the order book, each only after the step before it
\* succeeded (a memoized value stands for a successful step); a failed step
\* ends the slot in its Fallback Market and nothing is asked for it
\* afterwards; and the resolution returns its Index only when every slot has
\* finished.
C24_PipelineOrder ==
  [][\A c \in CallIds :
       (calls'[c].kind = "full" /\ calls'[c].arg \in IndexIds) =>
         /\ \A t \in DOMAIN calls'[c].tasks :
              LET from == StepBefore(c, t)
                  to == calls'[c].tasks[t]
              IN \/ from = to.step /\ (from \in Finished => to = calls[c].tasks[t])
                 \/ from = "new" /\ to.step \in {"exchange", "history"}
                 \/ from = "exchange" /\ to.step = "history" /\ to.failedAt = ""
                 \/ from = "history" /\ to.step \in {"orderbook", "real"} /\ to.failedAt = ""
                 \/ from = "orderbook" /\ to.step = "real" /\ to.failedAt = ""
                 \/ from \in Suspended /\ to.step = "fallback" /\ to.failedAt = from
         /\ (calls'[c].status = "returned" /\ calls'[c].tasks # EmptyMap)
              => AllFinished(calls'[c], DefOf(calls'[c].arg))
         /\ (calls'[c].tasks # EmptyMap /\ AllFinished(calls'[c], DefOf(calls'[c].arg)))
              => calls'[c].status = "returned"]_vars

\* C24 witness: a full resolution whose second slot is already waiting for
\* its order book while its first slot still waits for the snapshot, and one
\* that returned with a slot that failed at the price history.
C24_Witness ==
  /\ \E c \in CallIds :
       /\ calls[c].kind = "full" /\ calls[c].status = "running"
       /\ \E d \in DefIdx :
            /\ <<d, 1>> \in DOMAIN calls[c].tasks /\ <<d, 2>> \in DOMAIN calls[c].tasks
            /\ calls[c].tasks[<<d, 1>>].step = "exchange"
            /\ calls[c].tasks[<<d, 2>>].step = "orderbook"
  /\ \E c \in ResolvedFull :
       \E t \in DOMAIN calls[c].tasks : calls[c].tasks[t].failedAt = "history"

\* ------------------------------------------------------------- concurrent resolutions
\* C25: concurrent full resolutions of one id are not coalesced. A
\* getIndexWithData call that finds no entry for its id in the Index memo
\* starts a pipeline for every slot, whether or not another resolution of the
\* id is running, and asks the provider for every snapshot the market memo
\* does not hold; and every resolution that completes writes the Index it
\* built from its own slots to the Index memo and returns it.
C25_NotCoalesced ==
  [][\A c \in CallIds :
       /\ (calls[c].kind = "none" /\ calls'[c].kind = "full"
             /\ calls'[c].arg \in IndexIds /\ calls'[c].arg \notin DOMAIN cachedIndexes)
          => /\ DOMAIN calls'[c].tasks =
                  {<<DefOf(calls'[c].arg), s>> : s \in SlotsOf(DefOf(calls'[c].arg))}
             /\ \A t \in DOMAIN calls'[c].tasks :
                  IF TaskKey(calls'[c], t) \in DOMAIN cachedMarkets
                    THEN calls'[c].tasks[t].step = "history"
                    ELSE calls'[c].tasks[t].step = "exchange"
       /\ (calls[c].kind = "full" /\ calls[c].status = "running"
             /\ calls'[c].status = "returned")
          => /\ calls'[c].arg \in DOMAIN cachedIndexes'
             /\ calls'[c].result = Some(cachedIndexes'[calls'[c].arg])
             /\ cachedIndexes'[calls'[c].arg].markets =
                  Some(Gathered(calls'[c], DefOf(calls'[c].arg)))]_vars

\* C25 witness: two resolutions of one id ran side by side, each fetched the
\* snapshot of the first slot's market itself (each built its own Market
\* object for it), both returned, and the Index memo holds the result of the
\* one that finished last in place of the other's.
C25_Witness ==
  \E c \in ResolvedFull, b \in ResolvedFull :
    /\ c # b
    /\ calls[b].arg = calls[c].arg
    /\ LET d == DefOf(calls[c].arg)
       IN /\ Get(calls[c].tasks[<<d, 1>>].market) = RealRef(c, <<d, 1>>)
          /\ Get(calls[b].tasks[<<d, 1>>].market) = RealRef(b, <<d, 1>>)
    /\ ResultOf(c) # ResultOf(b)
    /\ cachedIndexes[calls[b].arg] = ResultOf(b)

\* ------------------------------------------------------------- termination
\* The provider answers (with a result or a failure) every request that is
\* outstanding: the assumption under which resolutions terminate. The service
\* itself has no timeout and no cancellation, so nothing else is assumed.
Responds ==
  \E c \in CallIds, t \in TaskIds :
    \/ ExchangeResolves(c, t)
    \/ PriceHistoryResolves(c, t)
    \/ OrderbookResolves(c, t)
    \/ ProviderRejects(c, t)
\* A request is outstanding: some running call has a pipeline suspended on the
\* provider. This is exactly when Responds is enabled, since ProviderRejects
\* can answer any outstanding request and changes the pipeline's step.
Outstanding ==
  \E c \in CallIds, t \in TaskIds :
    /\ calls[c].status = "running"
    /\ t \in DOMAIN calls[c].tasks
    /\ calls[c].tasks[t].step \in Suspended
\* Weak fairness of Responds, WF_vars(Responds), written out with Outstanding
\* in the place of ENABLED <<Responds>>_vars.
FairSpec == Spec /\ ([]<>(~Outstanding) \/ []<><<Responds>>_vars)

\* C26: when the provider answers every request, every getIndexWithData call
\* for a known id and every getAllIndexesWithBasicData call eventually
\* returns; and a resolution never returns while one of its slots still waits
\* for the provider, so it waits for ever on a request that is never
\* answered.
C26_ReturnsIffProviderResponds ==
  /\ \A c \in CallIds :
       (\/ calls[c].kind = "full" /\ calls[c].arg \in IndexIds
        \/ calls[c].kind = "basic") ~> (calls[c].status = "returned")
  /\ [][\A c \in CallIds :
          (/\ calls'[c].kind \in {"full", "basic"}
           /\ \E t \in DOMAIN calls'[c].tasks : calls'[c].tasks[t].step \in Suspended)
          => /\ calls'[c].status = "running"
             /\ calls'[c].result = Undefined]_vars

\* C26 witness: a list resolution and a full resolution of a known id have
\* both returned after waiting for the provider, which answered one of the
\* full resolution's requests with a failure.
C26_Witness ==
  /\ \E c \in ReturnedCalls("basic") : \A d \in DefIdx : AllFinished(calls[c], d)
  /\ \E c \in ResolvedFull :
       /\ calls[c].arg \in IndexIds
       /\ \E t \in DOMAIN calls[c].tasks : calls[c].tasks[t].failedAt # ""

\* ------------------------------------------------------------- the Index memo
\* C27: the Index memo holds an entry for an id exactly when a full
\* resolution of that id has completed through its pipelines, and the entry
\* is the Index one of them returned; a resolution that completes memoizes
\* its Index whatever its slots hold, Fallback Markets included; a call that
\* finds an entry returns it without a single provider request; and a call
\* for an id that is not predefined, which leaves through the Fallback Index
\* path, writes nothing to the memo.
C27_IndexMemoFollowsResolutions ==
  /\ [](/\ DOMAIN cachedIndexes = {calls[c].arg : c \in ResolvedFull}
        /\ \A id \in DOMAIN cachedIndexes :
             \E c \in ResolvedFull : calls[c].arg = id /\ ResultOf(c) = cachedIndexes[id])
  /\ [][\A c \in CallIds :
          /\ (calls[c].kind = "full" /\ calls[c].status = "running"
                /\ calls'[c].status = "returned")
             => /\ calls'[c].arg \in DOMAIN cachedIndexes'
                /\ Get(cachedIndexes'[calls'[c].arg].markets) =
                     [s \in SlotsOf(DefOf(calls'[c].arg)) |->
                        Get(calls'[c].tasks[<<DefOf(calls'[c].arg), s>>].market)]
          /\ (calls[c].kind = "none" /\ calls'[c].kind = "full"
                /\ calls'[c].arg \in DOMAIN cachedIndexes)
             => /\ calls'[c].status = "returned"
                /\ calls'[c].tasks = EmptyMap
                /\ Get(calls'[c].result).markets = cachedIndexes[calls'[c].arg].markets
                /\ UNCHANGED <<cachedIndexes, heap>>
          /\ (calls[c].kind = "none" /\ calls'[c].kind = "full"
                /\ calls'[c].arg \notin IndexIds)
             => /\ calls'[c].status # "running"
                /\ UNCHANGED cachedIndexes]_vars

\* C27 witness: a resolution whose slots all failed memoized its Index of
\* Fallback Markets, and a later call for the id got those same markets back
\* without a pipeline of its own.
C27_Witness ==
  \E c \in ResolvedFull, b \in ReturnedCalls("full") :
    /\ \A t \in DOMAIN calls[c].tasks : calls[c].tasks[t].step = "fallback"
    /\ calls[b].arg = calls[c].arg
    /\ calls[b].tasks = EmptyMap
    /\ ResultOf(b).markets = cachedIndexes[calls[c].arg].markets
    /\ \A s \in DOMAIN Get(ResultOf(b).markets) :
         Get(ResultOf(b).markets)[s] = FallbackRef(c, <<DefOf(calls[c].arg), s>>)

\* ------------------------------------------------------------- ledger calls
\* supply and withdraw of lib/utils/indexInteractions.ts.  An amount is the
\* decimal string amount.toString() gives: its digits as an integer and the
\* number of digits after the point.  Allowances are in micro-USDC.
SIX_DECIMALS == 6
EIGHTEEN_DECIMALS == 18
RECURSIVE Pow10(_)
Pow10(n) == IF n = 0 THEN 1 ELSE 10 * Pow10(n - 1)

\* ethers.utils.parseUnits: throws when the string has more digits after the
\* point than the unit has decimals; otherwise the value is digits * 10^exp.
parseUnits(amount, decimals) ==
  IF amount.decimals > decimals THEN Undefined
  ELSE Some([digits |-> amount.digits, exp |-> decimals - amount.decimals])

\* Mutant of NeedsApproval: an allowance equal to the amount is approved again.
NeedsApprovalLte(allowance, value) == allowance <= value.digits * Pow10(value.exp)

\* allowance.lt(value), line 76
NeedsApproval(allowance, value) == allowance < value.digits * Pow10(value.exp)

\* A run of supply or withdraw: the ledger request it waits on (pc), and every
\* request it has made with how each ended, in order.
NewRun == [pc |-> "start", log |-> <<>>, outcome |-> "running"]
Submit(run, step) == [run EXCEPT !.pc = step, !.log = Append(@, <<step, "call">>)]
Settle(run, how) == [run EXCEPT !.log = Append(@, <<run.pc, how>>)]
Propagate(run) == [run EXCEPT !.pc = "done", !.outcome = "threw"]
Receipt(run) == [run EXCEPT !.pc = "done", !.outcome = "returned"]

\* supply up to its first await (lines 65-73), and after each await (74-83)
supply(in) ==
  IF ~in.wallet \/ ~IsDefined(parseUnits(in.amount, SIX_DECIMALS))
    THEN Propagate(NewRun)
    ELSE Submit(NewRun, "getAddress")
supplyResumes(in, run) ==
  LET value == Get(parseUnits(in.amount, SIX_DECIMALS))
  IN CASE run.pc = "getAddress" -> Submit(run, "allowance")
       [] run.pc = "allowance" ->
            IF NeedsApproval(in.allowance, value) THEN Submit(run, "approve")
            ELSE Submit(run, "deposit")
       [] run.pc = "approve" -> Submit(run, "approve.wait")
       [] run.pc = "approve.wait" -> Submit(run, "deposit")
       [] run.pc = "deposit" -> Submit(run, "deposit.wait")
       [] OTHER -> Receipt(run)

\* withdraw up to its first await (lines 92-98), and after each await (99-102)
withdraw(in) ==
  IF ~in.wallet \/ ~IsDefined(parseUnits(in.amount, EIGHTEEN_DECIMALS))
    THEN Propagate(NewRun)
    ELSE Submit(NewRun, "approve")
withdrawResumes(in, run) ==
  CASE run.pc = "approve" -> Submit(run, "approve.wait")
    [] run.pc = "approve.wait" -> Submit(run, "withdraw")
    [] run.pc = "withdraw" -> Submit(run, "withdraw.wait")
    [] OTHER -> Receipt(run)

\* The calls considered: 1, 2.5 and 0.0000001 units, against allowances below,
\* equal to and above them, with and without an injected wallet.
LedgerAmounts ==
  {[digits |-> 1, decimals |-> 0], [digits |-> 25, decimals |-> 1],
   [digits |-> 1, decimals |-> 7]}
LedgerAllowances == {0, 1000000, 2500000, 5000000}
LedgerInputs ==
  [fn : {"supply", "withdraw"}, amount : LedgerAmounts, allowance : LedgerAllowances,
   wallet : BOOLEAN]

InitLedger == IdleService /\ input \in LedgerInputs /\ output = <<>>
CallSupply ==
  /\ output = <<>> /\ input.fn = "supply"
  /\ output' = <<supply(input)>>
  /\ UNCHANGED input /\ ServiceUntouched
CallWithdraw ==
  /\ output = <<>> /\ input.fn = "withdraw"
  /\ output' = <<withdraw(input)>>
  /\ UNCHANGED input /\ ServiceUntouched
\* the wallet or the ledger answers the request the run waits on
LedgerConfirms ==
  /\ output # <<>> /\ output[1].outcome = "running"
  /\ output' = <<IF input.fn = "supply" THEN supplyResumes(input, Settle(output[1], "ok"))
                 ELSE withdrawResumes(input, Settle(output[1], "ok"))>>
  /\ UNCHANGED input /\ ServiceUntouched
LedgerFails ==
  /\ output # <<>> /\ output[1].outcome = "running"
  /\ output' = <<Propagate(Settle(output[1], "failed"))>>
  /\ UNCHANGED input /\ ServiceUntouched
NextLedger == CallSupply \/ CallWithdraw \/ LedgerConfirms \/ LedgerFails
SpecLedger == InitLedger /\ [][NextLedger]_vars

\* the position of an entry in a run's log (0 when absent)
LogAt(run, entry) ==
  IF \E i \in DOMAIN run.log : run.log[i] = entry
    THEN CHOOSE i \in DOMAIN run.log : run.log[i] = entry ELSE 0
Before(run, a, b) == LogAt(run, a) > 0 /\ LogAt(run, a) < LogAt(run, b)

\* C28: supply submits an approval only when the allowance is lower than the
\* amount, and the deposit only after that approval, when one was needed, is
\* confirmed; when reading the allowance, submitting the approval or waiting
\* for its confirmation fails, no deposit is submitted and the call throws.
\* withdraw submits an approval first, always, and the withdrawal only after
\* the approval is confirmed.
C28_ApproveBeforeTransfer ==
  output # <<>> =>
    LET run == output[1]
        submitted(step) == LogAt(run, <<step, "call">>) > 0
        failed(step) == LogAt(run, <<step, "failed">>) > 0
    IN IF input.fn = "supply"
         THEN LET value == Get(parseUnits(input.amount, SIX_DECIMALS))
              IN /\ submitted("approve") => input.allowance < value.digits * Pow10(value.exp)
                 /\ submitted("deposit") =>
                      /\ Before(run, <<"allowance", "ok">>, <<"deposit", "call">>)
                      /\ input.allowance < value.digits * Pow10(value.exp) =>
                           /\ Before(run, <<"approve", "call">>, <<"approve.wait", "ok">>)
                           /\ Before(run, <<"approve.wait", "ok">>, <<"deposit", "call">>)
                 /\ \A step \in {"getAddress", "allowance", "approve", "approve.wait"} :
                      failed(step) => ~submitted("deposit") /\ run.outcome = "threw"
                 /\ run.outcome = "returned" =>
                      Before(run, <<"deposit", "call">>, <<"deposit.wait", "ok">>)
         ELSE /\ run.log # <<>> => run.log[1] = <<"approve", "call">>
              /\ submitted("withdraw") =>
                   Before(run, <<"approve.wait", "ok">>, <<"withdraw", "call">>)
              /\ \A step \in {"approve", "approve.wait"} :
                   failed(step) => ~submitted("withdraw") /\ run.outcome = "threw"
              /\ run.outcome = "returned" =>
                   Before(run, <<"withdraw", "call">>, <<"withdraw.wait", "ok">>)

\* C28 witness: a supply of 2.5 against an allowance of 1 has returned its
\* receipt, having approved, waited for the confirmation and then deposited.
C28_Witness ==
  /\ output # <<>>
  /\ input.fn = "supply" /\ input.amount = [digits |-> 25, decimals |-> 1]
  /\ input.allowance = 1000000
  /\ output[1].outcome = "returned"
  /\ Before(output[1], <<"approve.wait", "ok">>, <<"deposit", "call">>)

\* ------------------------------------------------------------- useContractTransaction
\* The hook of hooks/use-contract-transaction.ts: its three pieces of React
\* state, the supply and withdraw calls it has in flight, and what its latest
\* call did at once (the value it returned, if it returned without waiting,
\* and whether it called the ledger).
MaxInFlight == 2
Null == <<>>
HookAddresses == {"", "0xIndex"}
HookAmounts == {-1, 0, 1}
LedgerErrors == {"insufficient funds", "user rejected", "gas required exceeds", "other"}
NewHook ==
  [status |-> "idle", error |-> Null, txHash |-> Null,
   inFlight |-> [fn \in {"supply", "withdraw"} |-> 0],
   last |-> [tick |-> 0, fn |-> "", valid |-> TRUE, returned |-> Null, submitted |-> FALSE]]

\* lines 15 and 52
InvalidParameters(indexContractAddress, amount) == indexContractAddress = "" \/ amount <= 0

\* lines 33-42 and 70-79
ErrorMessage(fn, message) ==
  CASE message = "insufficient funds" ->
         IF fn = "supply" THEN "Insufficient USDC balance for this transaction"
         ELSE "Insufficient index tokens for this transaction"
    [] message = "user rejected" -> "Transaction was rejected in your wallet"
    [] message = "gas required exceeds" -> "Transaction requires more gas than available"
    [] OTHER -> "Transaction failed"

\* supplyTokens / withdrawTokens up to the await of line 25 / 62
TokensCall(hook, fn, indexContractAddress, amount) ==
  IF InvalidParameters(indexContractAddress, amount)
    THEN [hook EXCEPT !.error = Some("Invalid parameters"),
                      !.last = [tick |-> 1 - @.tick, fn |-> fn, valid |-> FALSE,
                                returned |-> Some(FALSE), submitted |-> FALSE]]
    ELSE [hook EXCEPT !.status = IF fn = "supply" THEN "approving" ELSE "pending",
                      !.error = Null,
                      !.txHash = Null,
                      !.inFlight[fn] = @ + 1,
                      !.last = [tick |-> 1 - @.tick, fn |-> fn, valid |-> TRUE,
                                returned |-> Null, submitted |-> TRUE]]

InitTransaction == IdleService /\ input = <<>> /\ output = <<NewHook>>
CanCall == output[1].inFlight["supply"] + output[1].inFlight["withdraw"] < MaxInFlight
SupplyTokens(indexContractAddress, amount) ==
  /\ CanCall
  /\ output' = <<TokensCall(output[1], "supply", indexContractAddress, amount)>>
  /\ UNCHANGED input /\ ServiceUntouched
WithdrawTokens(indexContractAddress, amount) ==
  /\ CanCall
  /\ output' = <<TokensCall(output[1], "withdraw", indexContractAddress, amount)>>
  /\ UNCHANGED input /\ ServiceUntouched
\* lines 26-28 and 63-65: the receipt arrives
TransactionSucceeds(fn) ==
  /\ output[1].inFlight[fn] > 0
  /\ output' = <<[output[1] EXCEPT !.inFlight[fn] = @ - 1,
                                   !.txHash = Some("0xreceipt"),
                                   !.status = "success"]>>
  /\ UNCHANGED input /\ ServiceUntouched
\* lines 29-46 and 66-83: supply or withdraw rejected
TransactionFails(fn, message) ==
  /\ output[1].inFlight[fn] > 0
  /\ output' = <<[output[1] EXCEPT !.inFlight[fn] = @ - 1,
                                   !.error = Some(ErrorMessage(fn, message)),
                                   !.status = "error"]>>
  /\ UNCHANGED input /\ ServiceUntouched
\* lines 88-92
ResetTransaction ==
  /\ output' = <<[output[1] EXCEPT !.status = "idle", !.error = Null, !.txHash = Null]>>
  /\ UNCHANGED input /\ ServiceUntouched
NextTransaction ==
  \/ \E a \in HookAddresses, n \in HookAmounts : SupplyTokens(a, n)
  \/ \E a \in HookAddresses, n \in HookAmounts : WithdrawTokens(a, n)
  \/ \E fn \in {"supply", "withdraw"} : TransactionSucceeds(fn)
  \/ \E fn \in {"supply", "withdraw"}, message \in LedgerErrors : TransactionFails(fn, message)
  \/ ResetTransaction
SpecTransaction == InitTransaction /\ [][NextTransaction]_vars

\* C29: after any sequence of supplyTokens, withdrawTokens and
\* resetTransaction calls, overlapping ones included, error is non-null only
\* while status is "error" and txHash is non-null only while status is
\* "success"; and a call with an empty address or an amount <= 0 calls the
\* ledger not at all, returns false and leaves status unchanged.
C29_ErrorAndHashFollowStatus ==
  /\ [](/\ output[1].error # Null => output[1].status = "error"
        /\ output[1].txHash # Null => output[1].status = "success")
  /\ [][(output'[1].last # output[1].last /\ ~output'[1].last.valid)
          => /\ output'[1].inFlight = output[1].inFlight
             /\ ~output'[1].last.submitted
             /\ output'[1].last.returned = Some(FALSE)
             /\ output'[1].status = output[1].status]_vars

\* ------------------------------------------------------------- useIndexData
\* The hook of hooks/use-index-data.ts: the indexId it was last rendered with
\* (input), its three pieces of React state and the getIndexWithData calls of
\* its effect that have not settled yet, counted per id.
MaxFetches == 3
HookIds == IndexIds \cup {UnknownId}
NewIndexData ==
  [mounted |-> FALSE, index |-> Null, loading |-> TRUE, error |-> Null,
   fetching |-> [id \in HookIds |-> 0]]
Fetching(hook) == SumInts([i \in 1..Len(predefinedIndexes) |->
                             hook.fetching[predefinedIndexes[i].id]])
                    + hook.fetching[UnknownId]

\* the effect of lines 16-33, up to the await of line 22
fetchIndexData(hook, indexId) ==
  [hook EXCEPT !.mounted = TRUE, !.loading = TRUE, !.error = Null,
               !.fetching[indexId] = @ + 1]

InitIndexData == IdleService /\ input \in HookIds /\ output = <<NewIndexData>>
\* the first render: the effect runs for the initial indexId
Mount ==
  /\ ~output[1].mounted
  /\ output' = <<fetchIndexData(output[1], input)>>
  /\ UNCHANGED input /\ ServiceUntouched
\* a render with another indexId: the effect runs again; nothing cancels the
\* call of the previous run
ChangeIndexId(indexId) ==
  /\ output[1].mounted /\ indexId # input
  /\ Fetching(output[1]) < MaxFetches
  /\ input' = indexId
  /\ output' = <<fetchIndexData(output[1], indexId)>>
  /\ ServiceUntouched
\* lines 22-23 and 27-29: getIndexWithData(id) resolves, as it does for every
\* predefined id
FetchResolves(id) ==
  /\ id \in IndexIds /\ output[1].fetching[id] > 0
  /\ output' = <<[output[1] EXCEPT !.fetching[id] = @ - 1,
                                   !.index = Some(CopyOf(predefinedIndexes[DefOf(id)])),
                                   !.loading = FALSE]>>
  /\ UNCHANGED input /\ ServiceUntouched
\* lines 24-29: getIndexWithData(id) rejects, as it does for an id that is
\* not predefined
FetchRejects(id) ==
  /\ id \notin IndexIds /\ output[1].fetching[id] > 0
  /\ output' = <<[output[1] EXCEPT !.fetching[id] = @ - 1,
                                   !.error = Some(<<"Failed to load index data", id>>),
                                   !.loading = FALSE]>>
  /\ UNCHANGED input /\ ServiceUntouched
NextIndexData ==
  \/ Mount
  \/ \E id \in HookIds : ChangeIndexId(id)
  \/ \E id \in HookIds : FetchResolves(id)
  \/ \E id \in HookIds : FetchRejects(id)
SpecIndexData == InitIndexData /\ [][NextIndexData]_vars

\* C30: when indexId changes while a fetch is in flight, then once every
\* fetch has settled (and none has failed since the change) the hook holds
\* the Index of the latest indexId, whatever order the fetches completed in;
\* and loading is false only when no fetch for the current indexId is in
\* flight.
C30_LatestIdWins ==
  /\ (output[1].mounted /\ Fetching(output[1]) = 0 /\ output[1].error = Null)
       => /\ output[1].index # Null
          /\ Get(output[1].index).id = input
  /\ ~output[1].loading => output[1].fetching[input] = 0
====
